---- MODULE Spec2Model ----
(***************************************************************************)
(* Pulse Link: host (leader) state machine, RoomState, lookahead           *)
(* metronome scheduler, follower (peer) state machine and the pub/sub       *)
(* connection managers between them.                                       *)
(*                                                                         *)
(* Times are milliseconds of performance.now().  The tempi used are        *)
(* divisors of 60000, so that 60000 / bpm and every beat time is an        *)
(* integer and the floating point arithmetic of the scheduler is exact.    *)
(* The clock estimates (RTTWindow, EMAFilter, ClockSync) are computed in   *)
(* binary64, as the source computes them.                                  *)
(* An optional value (T | null | undefined) is the tuple <<>> or <<v>>.    *)
(***************************************************************************)
EXTENDS Integers, Sequences, FiniteSets, TLC

\* ---------------------------------------------------------------- bounds
MaxTime == 50
MaxPlayTime == 800
MaxCalls == 4
MaxPeerTime == 200
MaxPeerEvents == 4
MaxClockOps == 6
MaxPushes == 12
MaxSyncTime == 7000
MaxJoinTime == 4000
MaxLinkTime == 4100

\* ------------------------------------------------------ program constants
LOOKAHEAD_MS == 500
REFILL_INTERVAL_MS == 50
BEATS_PER_MEASURE == 4
BPM_CHANGE_LEAD_MS == 300
EMA_ALPHA_TENTHS == 3
PING_INTERVAL_MS == 1000
STALE_PEER_TTL_MS == 6000
STALE_PEER_SWEEP_MS == 1000
JOIN_ANNOUNCE_INTERVAL_MS == 2000

\* tempi offered to createRoom / setBPM (domain [40,240], divisors of 60000)
BpmValues == {120, 240}
\* follower identities
PeerIds == {"p1"}
\* anchors handed to resumeMetronomeFromAnchor, relative to the call time
ResumeOffsets == {-700}
ResumeBeatIndices == {7}
\* what a host sends a follower: ping sequence numbers, clock offsets, and
\* start announcements (an anchor in the past and one ahead, an older and a
\* newer version)
PingSeqs == {0}
OffsetValues == {1000}
Announcements ==
  {[bpm |-> 120, version |-> 1, anchorLeaderMs |-> -400, beatIndexAtAnchor |-> 0],
   [bpm |-> 240, version |-> 2, anchorLeaderMs |-> 100, beatIndexAtAnchor |-> 0]}
\* the hosts a leader_hello or another message can come from
HostIds == {"h1", "h2"}
\* pongs <<t1, t2, t3, t4>> with t1 <= t2 <= t3 <= t4 given to processPong:
\* rtt 10, 100 and 8, raw offset 3, 3 and 1
PongSamples == {<<0, 8, 8, 10>>, <<0, 53, 53, 100>>}
\* offsets given to setOffsetMs
DirectOffsets == {1000}
\* the n-th sample given to RTTWindow.add: the rising series 10, 20, 30, ... or
\* a value out of order
RttStream(n) == {10 * n, 35}

\* time_pong payloads: how long ago the ping was sent, and the follower's
\* clock reading relative to the host's at the time it answered
PongDelays == {1000}
PeerClockLeads == {500}

\* the channel of the end-to-end scenario: round trip 20 ms, follower clock +50 ms
OneWayDelayMs == 10
LinkClockLeadMs == 50

\* ---------------------------------------------------------------- helpers
None == <<>>
Some(v) == <<v>>
Max(a, b) == IF a >= b THEN a ELSE b
MapDelete(map, key) == [k \in (DOMAIN map) \ {key} |-> map[k]]
MapSet(map, key, value) == [k \in (DOMAIN map) \cup {key} |-> IF k = key THEN value ELSE map[k]]
\* Math.floor(a / b) and Math.ceil(a / b) for b > 0
Floor(a, b) == a \div b
Ceil(a, b) == -((-a) \div b)
MsPerBeat(bpm) == 60000 \div bpm

\* ------------------------------------------------ binary64 number arithmetic
\* The clock estimates are JavaScript numbers: IEEE 754 binary64, every
\* operation rounded to nearest, ties to even.  A natural number of any size
\* is a sequence of limbs (base 2^15, least significant first, no leading
\* zero limb); a binary64 value is a sign, a 53-bit significand and an
\* exponent: (-1)^neg * m * 2^e, the significand normalised to 53 bits, so
\* that equal values are equal records.  Subnormals, infinities and NaN do
\* not arise at the magnitudes of clock offsets and are left out.
LimbBits == 15
LimbBase == 32768
SignificandBits == 53

RECURSIVE BigTrim(_)
BigTrim(a) ==
  IF a = <<>> THEN a
  ELSE IF a[Len(a)] = 0 THEN BigTrim(SubSeq(a, 1, Len(a) - 1)) ELSE a

RECURSIVE BigFromNat(_)
BigFromNat(n) == IF n = 0 THEN <<>> ELSE <<n % LimbBase>> \o BigFromNat(n \div LimbBase)

RECURSIVE BigToNat(_)
BigToNat(a) == IF a = <<>> THEN 0 ELSE a[1] + LimbBase * BigToNat(Tail(a))

RECURSIVE BigAddC(_, _, _)
BigAddC(a, b, c) ==
  IF a = <<>> /\ b = <<>> THEN (IF c = 0 THEN <<>> ELSE <<c>>)
  ELSE LET x == IF a = <<>> THEN 0 ELSE a[1]
           y == IF b = <<>> THEN 0 ELSE b[1]
           sum == x + y + c
       IN <<sum % LimbBase>>
          \o BigAddC(IF a = <<>> THEN a ELSE Tail(a),
                     IF b = <<>> THEN b ELSE Tail(b), sum \div LimbBase)

BigAdd(a, b) == BigAddC(a, b, 0)

\* a - b for a >= b
RECURSIVE BigSubB(_, _, _)
BigSubB(a, b, borrow) ==
  IF a = <<>> THEN <<>>
  ELSE LET y == IF b = <<>> THEN 0 ELSE b[1]
           d == a[1] - y - borrow
       IN <<(d + LimbBase) % LimbBase>>
          \o BigSubB(Tail(a), IF b = <<>> THEN b ELSE Tail(b),
                     IF d < 0 THEN 1 ELSE 0)

BigSub(a, b) == BigTrim(BigSubB(a, b, 0))

\* -1, 0, 1 as a < b, a = b, a > b
RECURSIVE BigCmp(_, _)
BigCmp(a, b) ==
  IF Len(a) # Len(b) THEN (IF Len(a) < Len(b) THEN -1 ELSE 1)
  ELSE IF a = <<>> THEN 0
  ELSE LET n == Len(a) IN
       IF a[n] # b[n] THEN (IF a[n] < b[n] THEN -1 ELSE 1)
       ELSE BigCmp(SubSeq(a, 1, n - 1), SubSeq(b, 1, n - 1))

RECURSIVE BigMulSmallC(_, _, _)
BigMulSmallC(a, k, c) ==
  IF a = <<>> THEN (IF c = 0 THEN <<>> ELSE <<c>>)
  ELSE LET p == a[1] * k + c IN
       <<p % LimbBase>> \o BigMulSmallC(Tail(a), k, p \div LimbBase)

BigMulSmall(a, k) == BigTrim(BigMulSmallC(a, k, 0))

BigShiftLimbs(a, q) == IF a = <<>> THEN a ELSE [i \in 1..q |-> 0] \o a

RECURSIVE BigMul(_, _)
BigMul(a, b) ==
  IF b = <<>> THEN <<>>
  ELSE BigAdd(BigMulSmall(a, b[1]), BigShiftLimbs(BigMul(a, Tail(b)), 1))

\* the quotient and remainder of a by a small divisor
RECURSIVE BigDivSmall(_, _)
BigDivSmall(a, k) ==
  IF a = <<>> THEN [q |-> <<>>, r |-> 0]
  ELSE LET hi == BigDivSmall(Tail(a), k)
           cur == hi.r * LimbBase + a[1]
       IN [q |-> BigTrim(<<cur \div k>> \o hi.q), r |-> cur % k]

BigShl(a, n) ==
  BigShiftLimbs(BigMulSmall(a, 2 ^ (n % LimbBits)), n \div LimbBits)

BigShr(a, n) ==
  LET q == n \div LimbBits
      r == n % LimbBits
      b == IF q >= Len(a) THEN <<>> ELSE SubSeq(a, q + 1, Len(a))
  IN BigTrim([i \in 1..Len(b) |->
       (b[i] \div 2 ^ r)
       + (IF i < Len(b) THEN (b[i + 1] % 2 ^ r) * 2 ^ (LimbBits - r) ELSE 0)])

RECURSIVE BitLength(_)
BitLength(x) == IF x = 0 THEN 0 ELSE 1 + BitLength(x \div 2)

BigBitLength(a) ==
  IF a = <<>> THEN 0 ELSE LimbBits * (Len(a) - 1) + BitLength(a[Len(a)])

BigIsOdd(a) == a # <<>> /\ a[1] % 2 = 1

DblZero == [neg |-> FALSE, m |-> <<>>, e |-> 0]

\* The binary64 nearest to (-1)^neg * M * 2^E, ties to even: the significand
\* is cut to 53 bits (q), rounded up when the part cut off is more than half
\* a unit, or exactly half with q odd, and cut again if that carried
Renormalise(neg, E, q1) ==
  IF BigBitLength(q1) > SignificandBits
  THEN [neg |-> neg, m |-> BigShr(q1, 1), e |-> E + 1]
  ELSE [neg |-> neg, m |-> q1, e |-> E]

RoundUp(neg, E, q, c) ==
  Renormalise(neg, E, IF c > 0 \/ (c = 0 /\ BigIsOdd(q)) THEN BigAdd(q, <<1>>) ELSE q)

RoundQuotient(neg, M, E, n, q) ==
  RoundUp(neg, E + n, q, BigCmp(BigSub(M, BigShl(q, n)), BigShl(<<1>>, n - 1)))

RoundToLength(neg, M, E, len) ==
  IF M = <<>> THEN DblZero
  ELSE IF len <= SignificandBits
  THEN [neg |-> neg, m |-> BigShl(M, SignificandBits - len),
        e |-> E - (SignificandBits - len)]
  ELSE RoundQuotient(neg, M, E, len - SignificandBits, BigShr(M, len - SignificandBits))

RoundDbl(neg, M, E) == RoundToLength(neg, M, E, BigBitLength(M))

DblFromInt(n) == RoundDbl(n < 0, BigFromNat(IF n < 0 THEN -n ELSE n), 0)

\* the value of the decimal literal num/den (0.3 is 3/10, 1.5 is 15/10)
DblFromRatio(num, den) ==
  LET d == BigDivSmall(BigShl(BigFromNat(num), 70), den) IN
  RoundDbl(FALSE, BigAdd(BigMulSmall(d.q, 2), IF d.r = 0 THEN <<>> ELSE <<1>>), -71)

DblNeg(x) == IF x.m = <<>> THEN x ELSE [x EXCEPT !.neg = ~x.neg]

\* x + y: the significands X and Y at the smaller exponent, c their comparison
DblAddSigned(x, y, emin, X, Y, c) ==
  RoundDbl(IF x.neg = y.neg \/ c > 0 THEN x.neg ELSE y.neg,
           IF x.neg = y.neg THEN BigAdd(X, Y)
           ELSE IF c >= 0 THEN BigSub(X, Y) ELSE BigSub(Y, X),
           emin)

DblAddAligned(x, y, emin, X, Y) == DblAddSigned(x, y, emin, X, Y, BigCmp(X, Y))

DblAddAt(x, y, emin) ==
  DblAddAligned(x, y, emin, BigShl(x.m, x.e - emin), BigShl(y.m, y.e - emin))

DblAdd(x, y) ==
  IF x.m = <<>> THEN y
  ELSE IF y.m = <<>> THEN x
  ELSE DblAddAt(x, y, IF x.e <= y.e THEN x.e ELSE y.e)

DblSub(x, y) == DblAdd(x, DblNeg(y))

DblMul(x, y) ==
  IF x.m = <<>> \/ y.m = <<>> THEN DblZero
  ELSE RoundDbl(x.neg # y.neg, BigMul(x.m, y.m), x.e + y.e)

\* x / 2
DblHalf(x) == IF x.m = <<>> THEN x ELSE [x EXCEPT !.e = @ - 1]

\* x <= y, x < y
DblIsNegative(d) == d.m # <<>> /\ d.neg
DblLe(x, y) == ~DblIsNegative(DblSub(y, x))
DblLt(x, y) == DblIsNegative(DblSub(x, y))

\* Math.floor(x) as an integer (for values within the integer range)
DblFloorOf(x, q) ==
  IF ~x.neg THEN BigToNat(q)
  ELSE IF BigShl(q, -x.e) = x.m THEN -BigToNat(q) ELSE -BigToNat(q) - 1

DblFloor(x) ==
  IF x.m = <<>> THEN 0
  ELSE IF x.e >= 0 THEN (IF x.neg THEN -1 ELSE 1) * BigToNat(BigShl(x.m, x.e))
  ELSE DblFloorOf(x, BigShr(x.m, -x.e))

\* ------------------------------------------------------------- Metronome
NewMetronome ==
  [bpm |-> 120, isRunning |-> FALSE, schedulerIntervalId |-> FALSE,
   beatGrid |-> None, nextBeatIndex |-> 0, nextScheduleTimeMs |-> 0,
   scheduledSources |-> {}, scheduledVisualTimeoutIds |-> {},
   waitingForUserGesture |-> FALSE]

BeatGrid(bpm, anchor, index) ==
  [bpm |-> bpm, anchorPerformanceMs |-> anchor, beatIndexAtAnchor |-> index]

calculateBeatTime(m, beatIndex) ==
  IF m.beatGrid = None THEN 0
  ELSE LET g == m.beatGrid[1] IN
       g.anchorPerformanceMs + (beatIndex - g.beatIndexAtAnchor) * MsPerBeat(g.bpm)

\* variant: the measure is counted from the anchor's beat
scheduleClick_fromAnchor(m, beatTimeMs, beatIndex) ==
  LET ev == [beatIndex |-> beatIndex, timeMs |-> beatTimeMs,
             isDownbeat |->
               ((beatIndex - m.beatGrid[1].beatIndexAtAnchor) % BEATS_PER_MEASURE = 0)] IN
  [m EXCEPT !.scheduledSources = @ \cup {ev},
            !.scheduledVisualTimeoutIds = @ \cup {ev}]

\* a click and its visual timeout; both are due at the beat's wall-clock time.
\* isDownbeat selects the accent click buffer and is passed to the visual callback
scheduleClick(m, beatTimeMs, beatIndex) ==
  LET ev == [beatIndex |-> beatIndex, timeMs |-> beatTimeMs,
             isDownbeat |-> (beatIndex % BEATS_PER_MEASURE = 0)] IN
  [m EXCEPT !.scheduledSources = @ \cup {ev},
            !.scheduledVisualTimeoutIds = @ \cup {ev}]

\* variant: the visual timeouts are left pending
clearScheduledSounds_keepVisual(m) ==
  [m EXCEPT !.scheduledSources = {}]

clearScheduledSounds(m) ==
  [m EXCEPT !.scheduledSources = {}, !.scheduledVisualTimeoutIds = {}]

RECURSIVE scheduleLoop(_, _)
scheduleLoop(m, t) ==
  IF m.nextScheduleTimeMs < t + LOOKAHEAD_MS
  THEN LET beatTimeMs == calculateBeatTime(m, m.nextBeatIndex)
           m1 == IF beatTimeMs > t
                 THEN scheduleClick(m, beatTimeMs, m.nextBeatIndex) ELSE m
       IN scheduleLoop([m1 EXCEPT !.nextBeatIndex = @ + 1,
                                  !.nextScheduleTimeMs = beatTimeMs], t)
  ELSE m

scheduleAhead(m, t) == IF m.beatGrid = None THEN m ELSE scheduleLoop(m, t)

\* variant: the beats since the anchor are rounded up
resetScheduleCursor_ceil(m, t) ==
  IF m.beatGrid = None THEN m
  ELSE LET g == m.beatGrid[1]
           beatsSinceAnchor == Max(0, Ceil(t - g.anchorPerformanceMs, MsPerBeat(g.bpm)))
           next == g.beatIndexAtAnchor + beatsSinceAnchor
       IN [m EXCEPT !.nextBeatIndex = next,
                    !.nextScheduleTimeMs = calculateBeatTime(m, next)]

resetScheduleCursor(m, t) ==
  IF m.beatGrid = None THEN m
  ELSE LET g == m.beatGrid[1]
           beatsSinceAnchor == Max(0, Floor(t - g.anchorPerformanceMs, MsPerBeat(g.bpm)))
           next == g.beatIndexAtAnchor + beatsSinceAnchor
       IN [m EXCEPT !.nextBeatIndex = next,
                    !.nextScheduleTimeMs = calculateBeatTime(m, next)]

setBeatGrid(m, grid, t) ==
  LET wasRunning == m.isRunning
      m1 == IF wasRunning THEN clearScheduledSounds(m) ELSE m
      m2 == resetScheduleCursor([m1 EXCEPT !.beatGrid = Some(grid), !.bpm = grid.bpm], t)
  IN IF wasRunning THEN scheduleAhead(m2, t) ELSE m2

\* the synchronous part of start(); the audio resume it requests settles later
metronomeStart(m, bpm, t) ==
  IF m.isRunning THEN m
  ELSE LET m1 == [m EXCEPT !.bpm = bpm, !.isRunning = TRUE] IN
       IF m1.beatGrid = None THEN setBeatGrid(m1, BeatGrid(bpm, t, 0), t)
       ELSE IF m1.beatGrid[1].bpm # bpm
            THEN [m1 EXCEPT !.beatGrid = Some([m1.beatGrid[1] EXCEPT !.bpm = bpm]),
                            !.nextScheduleTimeMs = t]
            ELSE m1

metronomeStop(m) ==
  clearScheduledSounds([m EXCEPT !.isRunning = FALSE,
                                 !.waitingForUserGesture = FALSE,
                                 !.schedulerIntervalId = FALSE])

startSchedulerIfNeeded(m, t) ==
  IF m.schedulerIntervalId THEN m
  ELSE [scheduleAhead(m, t) EXCEPT !.schedulerIntervalId = TRUE]


\* ------------------------------------------------------ RoomStateManager
NewRoomState(bpm) ==
  [bpm |-> bpm, version |-> 0, status |-> "open",
   startAtLeaderMs |-> None, beatIndexAtAnchor |-> None,
   peers |-> [p \in {} |-> 0]]

addPeer(rs, peerId, t) ==
  [rs EXCEPT !.peers = [p \in (DOMAIN rs.peers) \cup {peerId} |->
       IF p = peerId THEN [status |-> "connecting", lastSeenMs |-> t]
       ELSE rs.peers[p]]]

markPeerConnected(rs, peerId, t) ==
  IF peerId \in DOMAIN rs.peers
  THEN [rs EXCEPT !.peers[peerId] = [status |-> "connected", lastSeenMs |-> t]]
  ELSE rs

removePeer(rs, peerId) ==
  [rs EXCEPT !.peers = [p \in (DOMAIN rs.peers) \ {peerId} |-> rs.peers[p]]]

\* variant: the version is not bumped
roomSetBPM_keepVersion(rs, bpm) == [rs EXCEPT !.bpm = bpm]

roomSetBPM(rs, bpm) == [rs EXCEPT !.bpm = bpm, !.version = @ + 1]

\* variant: a status change forgets the tracked peers
setStatus_dropPeers(rs, status) ==
  [rs EXCEPT !.status = status, !.peers = [p \in {} |-> 0]]

setStatus(rs, status) == [rs EXCEPT !.status = status]

setBeatAnchor(rs, timeMs, beatIndex) ==
  [rs EXCEPT !.startAtLeaderMs = Some(timeMs), !.beatIndexAtAnchor = Some(beatIndex)]

\* the peers last seen more than ttlMs ago
getStalePeerIds(rs, ttlMs, t) ==
  {p \in DOMAIN rs.peers : t - rs.peers[p].lastSeenMs > ttlMs}

\* ------------------------------------------------ RTTWindow and EMAFilter
RTT_WINDOW_SIZE == 10
MIN_SAMPLES_FOR_STABILITY == 5
\* the number literals 0.3 and 1.5 of the source
EMA_ALPHA == DblFromRatio(EMA_ALPHA_TENTHS, 10)
RTT_OUTLIER_RATIO == DblFromRatio(15, 10)

\* variant: nothing is ever evicted
RTTWindowAdd_unbounded(samples, rtt) == Append(samples, rtt)

\* RTTWindow.add: push, then shift the oldest out when over capacity
RTTWindowAdd(samples, rtt) ==
  LET pushed == Append(samples, rtt) IN
  IF Len(pushed) > RTT_WINDOW_SIZE THEN Tail(pushed) ELSE pushed

\* [...samples].sort((a, b) => a - b)
RECURSIVE SortedInsert(_, _)
SortedInsert(sorted, x) ==
  IF sorted = <<>> THEN <<x>>
  ELSE IF DblLe(x, sorted[1]) THEN <<x>> \o sorted
  ELSE <<sorted[1]>> \o SortedInsert(Tail(sorted), x)

RECURSIVE SortNumbers(_)
SortNumbers(samples) ==
  IF samples = <<>> THEN <<>>
  ELSE SortedInsert(SortNumbers(Tail(samples)), samples[1])

\* RTTWindow.getMedian; the source's indices are 0-based
medianOfSorted(sorted, mid) ==
  IF Len(sorted) % 2 = 0
  THEN Some(DblHalf(DblAdd(sorted[mid], sorted[mid + 1])))
  ELSE Some(sorted[mid + 1])

getMedian(samples) ==
  IF Len(samples) = 0 THEN None
  ELSE medianOfSorted(SortNumbers(samples), Len(samples) \div 2)

\* EMAFilter.update: alpha * newValue + (1 - alpha) * value
EMAFilterUpdate(value, newValue) ==
  IF value = None THEN newValue
  ELSE DblAdd(DblMul(EMA_ALPHA, newValue),
              DblMul(DblSub(DblFromInt(1), EMA_ALPHA), value[1]))

\* ------------------------------------------------------------- ClockSync
NewClockSync ==
  [rttWindow |-> <<>>, offsetFilter |-> None,
   currentOffsetMs |-> DblZero, lastRTT |-> DblZero]

statsOf(cs, samples, median) ==
  [offsetMs |-> cs.currentOffsetMs,
   rtt |-> (IF median = None THEN cs.lastRTT ELSE median[1]),
   samples |-> samples,
   stable |-> samples >= MIN_SAMPLES_FOR_STABILITY]

getStats(cs) == statsOf(cs, Len(cs.rttWindow), getMedian(cs.rttWindow))

\* `this.currentOffsetMs = this.offsetFilter.update(...)`, v the filter's new value
updateOffset(cs, v) == [cs EXCEPT !.offsetFilter = Some(v), !.currentOffsetMs = v]

\* rttWindow.add(rtt); lastRTT = rtt
recordSample(cs, rtt) ==
  [cs EXCEPT !.rttWindow = RTTWindowAdd(@, rtt), !.lastRTT = rtt]

\* `medianRTT !== null && rtt <= medianRTT * 1.5`
isGoodSample(rtt, medianRTT) ==
  medianRTT # None /\ DblLe(rtt, DblMul(medianRTT[1], RTT_OUTLIER_RATIO))

\* the rest of processPong once the sample is in the window
applySample(cs, rtt, rawOffset) ==
  IF isGoodSample(rtt, getMedian(cs.rttWindow))
  THEN updateOffset(cs, EMAFilterUpdate(cs.offsetFilter, rawOffset))
  ELSE cs

\* variant: every sample updates the offset
processPong_always(cs, t1LeaderMs, t2PeerMs, t3PeerMs, t4LeaderMs) ==
  updateOffset(
    recordSample(cs, DblSub(DblSub(t4LeaderMs, t1LeaderMs), DblSub(t3PeerMs, t2PeerMs))),
    EMAFilterUpdate(cs.offsetFilter,
      DblHalf(DblAdd(DblSub(t2PeerMs, t1LeaderMs), DblSub(t3PeerMs, t4LeaderMs)))))

processSample(cs, rtt, rawOffset) == applySample(recordSample(cs, rtt), rtt, rawOffset)

\* the ClockSync after processPong; the call returns getStats of it
processPong(cs, t1LeaderMs, t2PeerMs, t3PeerMs, t4LeaderMs) ==
  processSample(cs,
    DblSub(DblSub(t4LeaderMs, t1LeaderMs), DblSub(t3PeerMs, t2PeerMs)),
    DblHalf(DblAdd(DblSub(t2PeerMs, t1LeaderMs), DblSub(t3PeerMs, t4LeaderMs))))

\* variant: the value is adopted as it is, without the filter
setOffsetMs_direct(cs, offsetMs) == [cs EXCEPT !.currentOffsetMs = offsetMs]

setOffsetMs(cs, offsetMs) == updateOffset(cs, EMAFilterUpdate(cs.offsetFilter, offsetMs))

getOffsetMs(cs) == cs.currentOffsetMs

\* variant: the filter keeps its value across reset()
clockSyncReset_keepFilter(cs) ==
  [cs EXCEPT !.rttWindow = <<>>, !.currentOffsetMs = DblZero, !.lastRTT = DblZero]

\* ClockSync.reset: rttWindow.clear(), offsetFilter.reset(), both numbers to 0
clockSyncReset(cs) ==
  [cs EXCEPT !.rttWindow = <<>>, !.offsetFilter = None,
             !.currentOffsetMs = DblZero, !.lastRTT = DblZero]

\* -------------------------------------------------------------- variables
VARIABLES
  now,                   \* performance.now() of the host
  state,                 \* LeaderStateMachine.state
  roomState,             \* LeaderStateMachine.roomState (None = null)
  connectionManager,     \* HostPubSubConnectionManager (None = null), its peers set
  pingIntervals,         \* LeaderStateMachine.pingIntervals: peer id -> interval id
  pingSeq,               \* LeaderStateMachine.pingSeq
  clockSyncs,            \* LeaderStateMachine.clockSyncs: peer id -> ClockSync
  staleSweepIntervalId,  \* LeaderStateMachine.staleSweepIntervalId (None = null)
  timers,                \* the live window.setInterval timers of the host's page
  nextTimerId,           \* the id the next setInterval returns
  metronome,             \* the host's Metronome
  pendingCreates,        \* createRoom calls suspended at `await signaling.connect`
  pendingCloses,         \* closeRoom calls suspended at `await closeAll`
  pendingJoins,          \* handlePeerJoin calls suspended at `await signaling.send`
  pendingResumes,        \* audioContextManager.resume() promises of start() not yet settled
  refillDue,             \* the refill interval is due at the current instant
  sent,                  \* messages handed to the channel by the last handler
  result,                \* how the last call returned: ok, await, throw, return, unchanged
  dispatched,            \* beat indices of the last two clicks that sounded since start()
  calls,                 \* calls and peer messages that changed state so far
  peerNow,               \* performance.now() of the follower
  peerState,             \* PeerStateMachine.state
  peerConnectionManager, \* PeerStateMachine.connectionManager (None = null): a manager's number
  peerManagers,          \* the PeerPubSubConnectionManager objects made so far, by number
  peerClockSync,         \* the follower's ClockSync: offsetFilter value, currentOffsetMs
  peerMetronome,         \* the follower's Metronome
  startTimers,           \* pending setTimeout callbacks of handleStartAnnounce
  joinTimers,            \* the live setInterval timers of startJoinAnnounceLoop
  peerPendingConnects,   \* joinRoom calls suspended at `await signaling.connect`
  peerPendingSends,      \* managers whose joinRoom is suspended at `await this.sendJoin()`
  peerPendingCloses,     \* leaveRoom calls suspended inside `await connectionManager.close()`
  peerPendingResumes,    \* resume() promises of the follower's start() not yet settled
  peerRefillDue,         \* the follower's refill interval is due at the current instant
  peerSent,              \* messages the follower's last handler sent to the host
  peerResult,            \* what the follower did last: the call's outcome or the message handled
  offsetUpdates,         \* clock_offset updates received since joinRoom
  announces,             \* start_announce messages handled so far (timer ids)
  appliedVersion,        \* newest version among the start_announce applied since joinRoom
  peerEvents,            \* follower calls and deliveries so far
  clockSync,             \* a ClockSync instance driven through its methods
  stats,                 \* the ClockStats its last processPong returned (None: no value)
  fed,                   \* the calls made on it since construction or reset()
  fedBeforeReset,        \* how many calls preceded its last reset() (0: never reset)
  rttWindow,             \* the samples of an RTTWindow instance driven through add()
  link,                  \* the channel between host and follower: messages in flight, the one handed over
  pushed                 \* every sample given to its add() since construction or clear()

vars == <<now, state, roomState, connectionManager, pingIntervals, pingSeq,
          clockSyncs, staleSweepIntervalId, timers, nextTimerId, metronome, pendingCreates,
          pendingCloses, pendingJoins, pendingResumes, refillDue, sent,
          result, dispatched, calls,
          peerNow, peerState, peerConnectionManager, peerManagers, peerClockSync,
          peerMetronome, startTimers, joinTimers, peerPendingConnects, peerPendingSends,
          peerPendingCloses, peerPendingResumes, peerRefillDue, peerSent, peerResult,
          offsetUpdates, announces, appliedVersion, peerEvents,
          clockSync, stats, fed, fedBeforeReset, rttWindow, pushed, link>>

leaderVars == <<now, state, roomState, connectionManager, pingIntervals, pingSeq,
                clockSyncs, staleSweepIntervalId, timers, nextTimerId, metronome, pendingCreates,
                pendingCloses, pendingJoins, pendingResumes, refillDue, sent,
                result, dispatched, calls>>

followerVars == <<peerNow, peerState, peerConnectionManager, peerManagers, peerClockSync,
                  peerMetronome, startTimers, joinTimers, peerPendingConnects,
                  peerPendingSends, peerPendingCloses, peerPendingResumes, peerRefillDue,
                  peerSent, peerResult, offsetUpdates, announces, appliedVersion,
                  peerEvents>>

unitVars == <<clockSync, stats, fed, fedBeforeReset, rttWindow, pushed, link>>

peerVars == <<pingIntervals, pingSeq, clockSyncs, pendingJoins>>
timerVars == <<timers, nextTimerId>>
asyncVars == <<pendingCreates, pendingCloses, pendingResumes>>
budgetVars == <<calls>>

\* a call or peer message that changes state, within the explored depth
Counted == calls < MaxCalls /\ calls' = calls + 1


Init ==
  /\ now = 0
  /\ state = "L_IDLE"
  /\ roomState = None
  /\ connectionManager = None
  /\ pingIntervals = [p \in {} |-> 0]
  /\ pingSeq = [p \in {} |-> 0]
  /\ clockSyncs = [p \in {} |-> NewClockSync]
  /\ staleSweepIntervalId = None
  /\ timers = {}
  /\ nextTimerId = 1
  /\ metronome = NewMetronome
  /\ pendingCreates = 0
  /\ pendingCloses = 0
  /\ pendingJoins = [p \in PeerIds |-> 0]
  /\ pendingResumes = 0
  /\ refillDue = FALSE
  /\ sent = <<>>
  /\ result = "ok"
  /\ dispatched = <<>>
  /\ calls = 0
  /\ peerNow = 0
  /\ peerState = "C_IDLE"
  /\ peerConnectionManager = None
  /\ peerManagers = [i \in {} |-> 0]
  /\ peerClockSync = NewClockSync
  /\ peerMetronome = NewMetronome
  /\ startTimers = [i \in {} |-> 0]
  /\ joinTimers = {}
  /\ peerPendingConnects = 0
  /\ peerPendingSends = {}
  /\ peerPendingCloses = {}
  /\ peerPendingResumes = 0
  /\ peerRefillDue = FALSE
  /\ peerSent = <<>>
  /\ peerResult = "ok"
  /\ offsetUpdates = 0
  /\ announces = 0
  /\ appliedVersion = None
  /\ peerEvents = 0
  /\ clockSync = NewClockSync
  /\ stats = None
  /\ fed = <<>>
  /\ fedBeforeReset = 0
  /\ rttWindow = <<>>
  /\ pushed = <<>>
  /\ link = [inFlight |-> {}, inbox |-> None, count |-> 0]

\* ------------------------------------------------- HostPubSubConnectionManager
Msg(type, to, payload) == [type |-> type, to |-> to, payload |-> payload]

\* sendControl / sendTimeSync: dropped unless the addressee is a known peer
sendControl(cm, peerId, type, payload) ==
  IF cm = None \/ peerId \notin cm[1].peers THEN <<>>
  ELSE <<Msg(type, peerId, payload)>>

broadcastControl(cm, type, payload) ==
  IF cm = None THEN <<>> ELSE <<Msg(type, "*", payload)>>

\* variant: the announcement always names beat 0
StartAnnounce_beatZero(bpm, version, anchor, beatIndex) ==
  [bpm |-> bpm, version |-> version, anchorLeaderMs |-> anchor,
   beatIndexAtAnchor |-> 0]

StartAnnounce(bpm, version, anchor, beatIndex) ==
  [bpm |-> bpm, version |-> version, anchorLeaderMs |-> anchor,
   beatIndexAtAnchor |-> beatIndex]


Room == roomState[1]

\* ------------------------------------------------------ LeaderStateMachine
\* window.setInterval and clearInterval on the timer table of the page
setInterval(ts, id, callback, peerId, periodMs, t) ==
  ts \cup {[id |-> id, callback |-> callback, peerId |-> peerId,
            periodMs |-> periodMs, dueMs |-> t + periodMs]}

clearInterval(ts, id) == {x \in ts : x.id # id}

\* the timer table after startStalePeerSweep armed the interval `id`
startStalePeerSweep(ts, sweepId, id, t) ==
  setInterval(IF sweepId # None THEN clearInterval(ts, sweepId[1]) ELSE ts,
              id, "sweep", "", STALE_PEER_SWEEP_MS, t)

\* the timer table after stopStalePeerSweep
stopStalePeerSweep(ts, sweepId) ==
  IF sweepId # None THEN clearInterval(ts, sweepId[1]) ELSE ts

\* the per-peer time sync bookkeeping of the host, and its assignment
HostSync ==
  [timers |-> timers, nextTimerId |-> nextTimerId, pingIntervals |-> pingIntervals,
   pingSeq |-> pingSeq, clockSyncs |-> clockSyncs]

SetHostSync(h) ==
  /\ timers' = h.timers
  /\ nextTimerId' = h.nextTimerId
  /\ pingIntervals' = h.pingIntervals
  /\ pingSeq' = h.pingSeq
  /\ clockSyncs' = h.clockSyncs

\* createRoom up to `await signaling.connect(...)`
CreateRoomBegin(bpm) ==
  /\ IF state # "L_IDLE"
     THEN /\ result' = "throw"
          /\ UNCHANGED <<roomState, pendingCreates, calls>>
     ELSE /\ Counted
          /\ roomState' = Some(NewRoomState(bpm))
          /\ pendingCreates' = pendingCreates + 1
          /\ result' = "await"
  /\ sent' = <<>>
  /\ UNCHANGED <<unitVars, followerVars, timerVars, now, state, connectionManager, peerVars, staleSweepIntervalId,
                 metronome, pendingCloses, pendingResumes, refillDue, dispatched>>

\* createRoom after the await: connection manager, handlers, stale sweep
CreateRoomFinish ==
  /\ pendingCreates > 0
  /\ pendingCreates' = pendingCreates - 1
  /\ connectionManager' = Some([peers |-> {}])
  /\ timers' = startStalePeerSweep(timers, staleSweepIntervalId, nextTimerId, now)
  /\ staleSweepIntervalId' = Some(nextTimerId)
  /\ nextTimerId' = nextTimerId + 1
  /\ state' = "L_ROOM_OPEN"
  /\ sent' = <<>>
  /\ result' = "ok"
  /\ UNCHANGED <<unitVars, followerVars, now, roomState, peerVars, metronome, pendingCloses,
                 pendingResumes, refillDue, dispatched, budgetVars>>

\* startTimeSyncWithPeer: fresh ClockSync, sequence 0, first ping, interval
sendTimePingToPeer(cm, seqs, peerId, t) ==
  IF cm = None THEN <<>>
  ELSE IF peerId \in cm[1].peers
       THEN <<Msg("time_ping", peerId,
                  [seq |-> (IF peerId \in DOMAIN seqs THEN seqs[peerId] ELSE 0),
                   t1LeaderMs |-> t])>>
       ELSE <<>>

syncPeerState(cm, rs, peerId) ==
  IF cm = None \/ rs = None THEN <<>>
  ELSE LET r == rs[1] IN
       sendControl(cm, peerId, "param_update", [bpm |-> r.bpm, version |-> r.version])
       \o (IF r.status \in {"countdown", "running"} /\ r.startAtLeaderMs # None
           THEN sendControl(cm, peerId, "start_announce",
                  StartAnnounce(r.bpm, r.version, r.startAtLeaderMs[1],
                     IF r.beatIndexAtAnchor = None THEN 0 ELSE r.beatIndexAtAnchor[1]))
           ELSE <<>>)

\* startTimeSyncWithPeer with a connection manager: a new ClockSync, sequence 0
\* advanced by the first ping, and a new interval whose id replaces the entry
startTimeSyncWithPeer(h, peerId, t) ==
  [timers |-> setInterval(h.timers, h.nextTimerId, "ping", peerId, PING_INTERVAL_MS, t),
   nextTimerId |-> h.nextTimerId + 1,
   pingIntervals |-> MapSet(h.pingIntervals, peerId, h.nextTimerId),
   pingSeq |-> MapSet(h.pingSeq, peerId, 1),
   clockSyncs |-> MapSet(h.clockSyncs, peerId, NewClockSync)]

\* HostPubSubConnectionManager.handlePeerJoin up to `await signaling.send(hello)`
JoinBegin(p) ==
  /\ connectionManager # None
  /\ LET isNewPeer == p \notin connectionManager[1].peers IN
     /\ pendingJoins' = IF isNewPeer THEN [pendingJoins EXCEPT ![p] = @ + 1]
                        ELSE pendingJoins
     /\ IF isNewPeer THEN Counted ELSE UNCHANGED calls
  /\ connectionManager' = Some([peers |-> connectionManager[1].peers \cup {p}])
  /\ sent' = <<Msg("leader_hello", p, [leaderId |-> "host"])>>
  /\ result' = "await"
  /\ UNCHANGED <<unitVars, followerVars, timerVars, now, state, roomState, pingIntervals, pingSeq, clockSyncs,
                 staleSweepIntervalId, metronome, asyncVars, refillDue, dispatched>>

\* the onPeerConnected callback of createRoom, run after the hello was sent
JoinFinish(p) ==
  /\ pendingJoins[p] > 0
  /\ pendingJoins' = [pendingJoins EXCEPT ![p] = @ - 1]
  /\ roomState' = IF roomState = None THEN None
                  ELSE Some(markPeerConnected(addPeer(Room, p, now), p, now))
  /\ IF connectionManager = None
     THEN UNCHANGED <<clockSyncs, pingSeq, pingIntervals, timerVars>>
     ELSE SetHostSync(startTimeSyncWithPeer(HostSync, p, now))
  /\ sent' = sendTimePingToPeer(connectionManager, [q \in {p} |-> 0], p, now)
             \o syncPeerState(connectionManager, roomState', p)
  /\ result' = "ok"
  /\ UNCHANGED <<unitVars, followerVars, now, state, connectionManager, staleSweepIntervalId, metronome,
                 asyncVars, refillDue, dispatched, budgetVars>>

\* handlePeerJoin when `await signaling.send(hello)` rejects: the handler ends
\* there, the peer stays in the manager's peers and the callback is not run
JoinHelloFailed(p) ==
  /\ pendingJoins[p] > 0
  /\ pendingJoins' = [pendingJoins EXCEPT ![p] = @ - 1]
  /\ sent' = <<>>
  /\ result' = "throw"
  /\ UNCHANGED <<unitVars, followerVars, timerVars, now, state, roomState, connectionManager,
                 pingIntervals, pingSeq, clockSyncs, staleSweepIntervalId, metronome,
                 asyncVars, refillDue, dispatched, budgetVars>>

\* stopTimeSyncWithPeer: the interval the map names is cleared, the entries go
\* variant: the ClockSync of the peer is kept
stopTimeSyncWithPeer_keepClockSync(h, peerId) ==
  [h EXCEPT !.timers = IF peerId \in DOMAIN h.pingIntervals
                       THEN clearInterval(@, h.pingIntervals[peerId]) ELSE @,
            !.pingIntervals = MapDelete(@, peerId),
            !.pingSeq = MapDelete(@, peerId)]

stopTimeSyncWithPeer(h, peerId) ==
  [h EXCEPT !.timers = IF peerId \in DOMAIN h.pingIntervals
                       THEN clearInterval(@, h.pingIntervals[peerId]) ELSE @,
            !.pingIntervals = MapDelete(@, peerId),
            !.pingSeq = MapDelete(@, peerId),
            !.clockSyncs = MapDelete(@, peerId)]

\* stopTimeSyncWithPeer for each peer of a loop
RECURSIVE stopTimeSyncWithPeers(_, _)
stopTimeSyncWithPeers(h, peerIds) ==
  IF peerIds = {} THEN h
  ELSE LET peerId == CHOOSE q \in peerIds : TRUE
       IN stopTimeSyncWithPeers(stopTimeSyncWithPeer(h, peerId), peerIds \ {peerId})

\* handlePeerBye and the onPeerDisconnected callback
PeerBye(p) ==
  /\ connectionManager # None
  /\ IF p \notin connectionManager[1].peers
     THEN UNCHANGED <<connectionManager, roomState, pingIntervals, pingSeq, clockSyncs,
                      timerVars, calls>>
     ELSE /\ Counted
          /\ connectionManager' = Some([peers |-> connectionManager[1].peers \ {p}])
          /\ roomState' = IF roomState = None THEN None ELSE Some(removePeer(Room, p))
          /\ SetHostSync(stopTimeSyncWithPeer(HostSync, p))
  /\ sent' = <<>>
  /\ result' = "ok"
  /\ UNCHANGED <<unitVars, followerVars, now, state, staleSweepIntervalId, metronome, pendingJoins,
                 asyncVars, refillDue, dispatched>>

\* the part of startMetronome / resumeMetronomeFromAnchor after the guards
BeginPlayback(anchor, beatIndex) ==
  LET bpm == Room.bpm IN
  /\ Counted
  /\ roomState' = Some(setStatus(setBeatAnchor(Room, anchor, beatIndex), "running"))
  /\ state' = "L_RUNNING"
  /\ sent' = broadcastControl(connectionManager, "start_announce",
                StartAnnounce(bpm, Room.version, anchor, beatIndex))
  /\ metronome' = metronomeStart(setBeatGrid(metronome, BeatGrid(bpm, anchor, beatIndex), now),
                                 bpm, now)
  /\ pendingResumes' = IF metronome.isRunning THEN pendingResumes ELSE pendingResumes + 1
  /\ dispatched' = <<>>
  /\ result' = "ok"
  /\ UNCHANGED <<unitVars, followerVars, timerVars, now, connectionManager, peerVars, staleSweepIntervalId,
                 pendingCreates, pendingCloses, refillDue>>

Rejected(how) ==
  /\ result' = how
  /\ sent' = <<>>
  /\ UNCHANGED <<unitVars, followerVars, timerVars, now, state, roomState, connectionManager, peerVars,
                 staleSweepIntervalId, metronome, asyncVars, refillDue, dispatched, budgetVars>>

\* variant: a start outside RoomOpen is ignored instead of raised
StartMetronome_ignored ==
  IF state # "L_ROOM_OPEN" \/ roomState = None \/ connectionManager = None
  THEN Rejected("return")
  ELSE BeginPlayback(now, 0)

StartMetronome ==
  IF state # "L_ROOM_OPEN" THEN Rejected("throw")
  ELSE IF roomState = None \/ connectionManager = None
       THEN Rejected("throw")
       ELSE BeginPlayback(now, 0)

ResumeMetronomeFromAnchor(anchorLeaderMs, beatIndexAtAnchor) ==
  IF state # "L_ROOM_OPEN" THEN Rejected("return")
  ELSE IF roomState = None \/ connectionManager = None
       THEN Rejected("return")
       ELSE BeginPlayback(anchorLeaderMs, beatIndexAtAnchor)

\* the part of stopMetronome after the state check
StopPlayback ==
  /\ metronome' = metronomeStop(metronome)
  /\ roomState' = IF roomState = None THEN None ELSE Some(setStatus(Room, "open"))
  /\ state' = "L_ROOM_OPEN"
  /\ sent' = broadcastControl(connectionManager, "stop_announce", <<>>)
  /\ dispatched' = <<>>
  /\ Counted
  /\ result' = "ok"
  /\ UNCHANGED <<unitVars, followerVars, timerVars, now, connectionManager, peerVars, staleSweepIntervalId,
                 asyncVars, refillDue>>

\* variant: the state check is missing
StopMetronome_unguarded == StopPlayback

StopMetronome ==
  IF state # "L_RUNNING" THEN Rejected("return") ELSE StopPlayback

\* variant: the change point is counted from the call time, not from the old grid
ChangePoint_fromNow(previous, t) ==
  LET previousStartAtLeaderMs == previous.startAtLeaderMs[1]
      msPerBeatOld == MsPerBeat(previous.bpm)
      baseBeatIndex == IF previous.beatIndexAtAnchor = None THEN 0
                       ELSE previous.beatIndexAtAnchor[1]
      elapsedMs == Max(0, t - previousStartAtLeaderMs)
      beatsSinceAnchor == Floor(elapsedMs, msPerBeatOld)
      currentBeatIndex == baseBeatIndex + beatsSinceAnchor
      currentBeatTime == previousStartAtLeaderMs
                         + (currentBeatIndex - baseBeatIndex) * msPerBeatOld
      leadRemainingMs == Max(0, BPM_CHANGE_LEAD_MS - (t - currentBeatTime))
      beatsAhead == Max(1, Ceil(leadRemainingMs, msPerBeatOld))
      changeBeatIndex == currentBeatIndex + beatsAhead
  IN [changeAtLeaderMs |-> t + beatsAhead * msPerBeatOld,
      changeBeatIndex |-> changeBeatIndex]

\* the re-anchor point of a tempo change while running
ChangePoint(previous, t) ==
  LET previousStartAtLeaderMs == previous.startAtLeaderMs[1]
      msPerBeatOld == MsPerBeat(previous.bpm)
      baseBeatIndex == IF previous.beatIndexAtAnchor = None THEN 0
                       ELSE previous.beatIndexAtAnchor[1]
      elapsedMs == Max(0, t - previousStartAtLeaderMs)
      beatsSinceAnchor == Floor(elapsedMs, msPerBeatOld)
      currentBeatIndex == baseBeatIndex + beatsSinceAnchor
      currentBeatTime == previousStartAtLeaderMs
                         + (currentBeatIndex - baseBeatIndex) * msPerBeatOld
      leadRemainingMs == Max(0, BPM_CHANGE_LEAD_MS - (t - currentBeatTime))
      beatsAhead == Max(1, Ceil(leadRemainingMs, msPerBeatOld))
      changeBeatIndex == currentBeatIndex + beatsAhead
  IN [changeAtLeaderMs |-> previousStartAtLeaderMs
                           + (changeBeatIndex - baseBeatIndex) * msPerBeatOld,
      changeBeatIndex |-> changeBeatIndex]

\* variant: the comparison with the current tempo is missing
bpmUnchanged_never(previous, bpm) == FALSE

\* `previous.bpm === bpm`, the no-op check of setBPM
bpmUnchanged(previous, bpm) == previous.bpm = bpm

SetBPM(bpm) ==
  IF roomState = None \/ connectionManager = None
  THEN Rejected("return")
  ELSE IF bpmUnchanged(Room, bpm) THEN Rejected("unchanged")
  ELSE LET previous == Room
           updated == roomSetBPM(Room, bpm)
           running == state = "L_RUNNING" /\ previous.startAtLeaderMs # None
           cp == ChangePoint(previous, now)
       IN
       /\ Counted
       /\ IF running
          THEN /\ roomState' = Some(setBeatAnchor(updated, cp.changeAtLeaderMs,
                                                  cp.changeBeatIndex))
               /\ metronome' = setBeatGrid(metronome,
                     BeatGrid(bpm, cp.changeAtLeaderMs, cp.changeBeatIndex), now)
               /\ sent' = broadcastControl(connectionManager, "start_announce",
                     StartAnnounce(bpm, updated.version, cp.changeAtLeaderMs,
                                   cp.changeBeatIndex))
          ELSE /\ roomState' = Some(updated)
               /\ metronome' = metronome
               /\ sent' = broadcastControl(connectionManager, "param_update",
                     [bpm |-> bpm, version |-> updated.version])
       /\ result' = "ok"
       /\ UNCHANGED <<unitVars, followerVars, timerVars, now, state, connectionManager, peerVars, staleSweepIntervalId,
                      asyncVars, refillDue, dispatched>>

\* closeRoom up to `await connectionManager.closeAll()`; closeAll runs the
\* onPeerDisconnected callback for every peer before it suspends
CloseRoomBegin ==
  IF state = "L_IDLE" THEN Rejected("return")
  ELSE /\ metronome' = metronomeStop(metronome)
       /\ staleSweepIntervalId' = None
       /\ IF connectionManager # None /\ roomState # None
          THEN LET gone == connectionManager[1].peers IN
               /\ state' = "L_CLOSING"
               /\ sent' = broadcastControl(connectionManager, "room_closed", <<>>)
               /\ roomState' = Some([Room EXCEPT !.peers =
                                 [p \in (DOMAIN Room.peers) \ gone |-> Room.peers[p]]])
               /\ SetHostSync(stopTimeSyncWithPeers(
                     [HostSync EXCEPT !.timers = stopStalePeerSweep(@, staleSweepIntervalId)],
                     gone))
               /\ connectionManager' = Some([peers |-> {}])
               /\ pendingCloses' = pendingCloses + 1
               /\ result' = "await"
          ELSE /\ state' = "L_IDLE"
               /\ sent' = <<>>
               /\ roomState' = None
               /\ connectionManager' = None
               /\ result' = "ok"
               /\ timers' = stopStalePeerSweep(timers, staleSweepIntervalId)
               /\ UNCHANGED <<pingIntervals, pingSeq, clockSyncs, nextTimerId,
                              pendingCloses>>
       /\ dispatched' = <<>>
       /\ Counted
       /\ UNCHANGED <<unitVars, followerVars, now, pendingJoins, pendingCreates, pendingResumes, refillDue>>

CloseRoomFinish ==
  /\ pendingCloses > 0
  /\ pendingCloses' = pendingCloses - 1
  /\ roomState' = None
  /\ connectionManager' = None
  /\ state' = "L_IDLE"
  /\ sent' = <<>>
  /\ result' = "ok"
  /\ UNCHANGED <<unitVars, followerVars, timerVars, now, peerVars, staleSweepIntervalId, metronome, pendingCreates,
                 pendingResumes, refillDue, dispatched, budgetVars>>

\* ------------------------------------------------ scheduler and clock events
\* the resume() promise of start() fulfils: startSchedulerIfNeeded, disarm
AudioResumeResolved ==
  /\ pendingResumes > 0
  /\ pendingResumes' = pendingResumes - 1
  /\ metronome' = [startSchedulerIfNeeded(metronome, now)
                     EXCEPT !.waitingForUserGesture = FALSE]
  /\ sent' = <<>>
  /\ result' = "ok"
  /\ UNCHANGED <<unitVars, followerVars, timerVars, now, state, roomState, connectionManager, peerVars,
                 staleSweepIntervalId, pendingCreates, pendingCloses, refillDue,
                 dispatched, budgetVars>>

\* the resume() promise of start() rejects: armUserGestureResume
AudioResumeRejected ==
  /\ pendingResumes > 0
  /\ pendingResumes' = pendingResumes - 1
  /\ metronome' = [metronome EXCEPT !.waitingForUserGesture = TRUE]
  /\ sent' = <<>>
  /\ result' = "ok"
  /\ UNCHANGED <<unitVars, followerVars, timerVars, now, state, roomState, connectionManager, peerVars,
                 staleSweepIntervalId, pendingCreates, pendingCloses, refillDue,
                 dispatched, budgetVars>>

\* the setInterval callback of startScheduler
RefillTick ==
  /\ refillDue
  /\ metronome.schedulerIntervalId
  /\ refillDue' = FALSE
  /\ metronome' = IF metronome.isRunning THEN scheduleAhead(metronome, now) ELSE metronome
  /\ sent' = <<>>
  /\ result' = "ok"
  /\ UNCHANGED <<unitVars, followerVars, timerVars, now, state, roomState, connectionManager, peerVars,
                 staleSweepIntervalId, asyncVars, dispatched, budgetVars>>

\* clicks whose time has come sound (and leave the tracking lists), in time order
Due(m, t) == {e \in m.scheduledSources : e.timeMs <= t}

RECURSIVE PlayAll(_, _)
PlayAll(log, events) ==
  IF events = {} THEN log
  ELSE LET e == CHOOSE x \in events : \A y \in events :
                  x.timeMs < y.timeMs \/ (x.timeMs = y.timeMs /\ x.beatIndex <= y.beatIndex)
           log1 == IF Len(log) < 2 THEN Append(log, e.beatIndex)
                   ELSE <<log[2], e.beatIndex>>
       IN PlayAll(log1, events \ {e})

\* Something that depends on the clock is pending.  All computations use
\* differences of times, so time that passes while nothing is pending is not
\* observable and the clock is advanced only while this holds.
ClockObserved ==
  \/ state = "L_RUNNING"
  \/ metronome.schedulerIntervalId
  \/ metronome.scheduledSources # {}
  \/ pendingResumes > 0

\* the clock advances by one refill period
TickUpTo(limit) ==
  /\ now < limit
  /\ ClockObserved
  /\ ~(refillDue /\ metronome.schedulerIntervalId)
  /\ now' = now + REFILL_INTERVAL_MS
  /\ refillDue' = TRUE
  /\ metronome' = [metronome EXCEPT
        !.scheduledSources = @ \ Due(metronome, now'),
        !.scheduledVisualTimeoutIds = {e \in @ : e.timeMs > now'}]
  /\ dispatched' = IF metronome.isRunning
                   THEN PlayAll(dispatched, Due(metronome, now')) ELSE dispatched
  /\ sent' = <<>>
  /\ result' = "ok"
  /\ UNCHANGED <<unitVars, followerVars, timerVars, state, roomState, connectionManager, peerVars,
                 staleSweepIntervalId, asyncVars, budgetVars>>

Tick == TickUpTo(MaxTime)
PlayTick == TickUpTo(MaxPlayTime)

Next ==
  \/ \E bpm \in BpmValues : CreateRoomBegin(bpm)
  \/ CreateRoomFinish
  \/ \E p \in PeerIds : JoinBegin(p)
  \/ \E p \in PeerIds : JoinFinish(p)
  \/ \E p \in PeerIds : PeerBye(p)
  \/ StartMetronome
  \/ \E d \in ResumeOffsets, i \in ResumeBeatIndices : ResumeMetronomeFromAnchor(now + d, i)
  \/ StopMetronome
  \/ \E bpm \in BpmValues : SetBPM(bpm)
  \/ CloseRoomBegin
  \/ CloseRoomFinish
  \/ AudioResumeResolved
  \/ AudioResumeRejected
  \/ RefillTick
  \/ Tick

Spec == Init /\ [][Next]_vars

\* ------------------------------------------------ time sync and stale sweep
\* the clock_offset payload made of the stats processPong returned
ClockOffset(clockStats) == [offsetMs |-> clockStats.offsetMs, rtt |-> clockStats.rtt]

\* handleTimePong for a pong that answers the ping sent `delay` ms ago, from a
\* follower whose clock is `lead` ms ahead and which took half the delay to get it
HandleTimePong(p, delay, lead) ==
  /\ delay <= now
  /\ IF p \notin DOMAIN clockSyncs \/ connectionManager = None
     THEN Rejected("return")
     ELSE LET t1LeaderMs == now - delay
              t2PeerMs == t1LeaderMs + delay \div 2 + lead
              t3PeerMs == t2PeerMs
              t4 == now
          IN /\ Counted
             /\ clockSyncs' = MapSet(clockSyncs, p,
                   processPong(clockSyncs[p], DblFromInt(t1LeaderMs), DblFromInt(t2PeerMs),
                               DblFromInt(t3PeerMs), DblFromInt(t4)))
             /\ roomState' = IF roomState = None THEN None
                             ELSE Some(markPeerConnected(Room, p, now))
             /\ sent' = sendControl(connectionManager, p, "clock_offset",
                           ClockOffset(getStats(clockSyncs'[p])))
             /\ result' = "ok"
             /\ UNCHANGED <<unitVars, followerVars, timerVars, now, state, connectionManager,
                            pingIntervals, pingSeq, pendingJoins, staleSweepIntervalId,
                            metronome, asyncVars, refillDue, dispatched>>

\* the timers whose time has come run in the order of their times, then of
\* their creation
FirstDue(x) ==
  /\ x \in timers
  /\ x.dueMs <= now
  /\ \A y \in timers : y.dueMs > x.dueMs \/ (y.dueMs = x.dueMs /\ y.id >= x.id)

Rearmed(x) == (timers \ {x}) \cup {[x EXCEPT !.dueMs = @ + x.periodMs]}

\* the setInterval callback of startTimeSyncWithPeer: sendTimePingToPeer
PingIntervalFires(id) ==
  \E x \in timers :
    /\ x.id = id /\ x.callback = "ping" /\ FirstDue(x)
    /\ timers' = Rearmed(x)
    /\ IF connectionManager = None
       THEN /\ pingSeq' = pingSeq
            /\ sent' = <<>>
       ELSE /\ pingSeq' = MapSet(pingSeq, x.peerId,
                                 (IF x.peerId \in DOMAIN pingSeq THEN pingSeq[x.peerId] ELSE 0) + 1)
            /\ sent' = sendTimePingToPeer(connectionManager, pingSeq, x.peerId, now)
    /\ result' = "ok"
    /\ UNCHANGED <<unitVars, followerVars, nextTimerId, now, state, roomState,
                   connectionManager, pingIntervals, clockSyncs, pendingJoins,
                   staleSweepIntervalId, metronome, asyncVars, refillDue, dispatched,
                   budgetVars>>

\* the setInterval callback of startStalePeerSweep
StaleSweepFires(id) ==
  \E x \in timers :
    /\ x.id = id /\ x.callback = "sweep" /\ FirstDue(x)
    /\ IF roomState = None
       THEN /\ timers' = Rearmed(x)
            /\ UNCHANGED <<roomState, nextTimerId, pingIntervals, pingSeq, clockSyncs>>
       ELSE LET stalePeerIds == getStalePeerIds(Room, STALE_PEER_TTL_MS, now) IN
            /\ roomState' = Some([Room EXCEPT !.peers =
                  [p \in (DOMAIN Room.peers) \ stalePeerIds |-> Room.peers[p]]])
            /\ SetHostSync(stopTimeSyncWithPeers([HostSync EXCEPT !.timers = Rearmed(x)],
                                                 stalePeerIds))
    /\ sent' = <<>>
    /\ result' = "ok"
    /\ UNCHANGED <<unitVars, followerVars, now, state, connectionManager, pendingJoins,
                   staleSweepIntervalId, metronome, asyncVars, refillDue, dispatched,
                   budgetVars>>

\* the clock advances to the time of the next interval timer; no refill timer
\* of the scheduler is armed
SyncTick ==
  /\ timers # {}
  /\ ~metronome.schedulerIntervalId
  /\ \A x \in timers : x.dueMs > now
  /\ \E x \in timers :
       /\ \A y \in timers : y.dueMs >= x.dueMs
       /\ x.dueMs <= MaxSyncTime
       /\ now' = x.dueMs
  /\ metronome' = [metronome EXCEPT
        !.scheduledSources = @ \ Due(metronome, now'),
        !.scheduledVisualTimeoutIds = {e \in @ : e.timeMs > now'}]
  /\ dispatched' = IF metronome.isRunning
                   THEN PlayAll(dispatched, Due(metronome, now')) ELSE dispatched
  /\ sent' = <<>>
  /\ result' = "ok"
  /\ UNCHANGED <<unitVars, followerVars, timerVars, state, roomState, connectionManager,
                 peerVars, staleSweepIntervalId, asyncVars, refillDue, budgetVars>>

\* The host with joins (repeated ones too), byes and pongs and with
\* its interval timers, observed over several sweep periods; the audio of a
\* start stays pending, so that the scheduler's own timer is never armed
NextSync ==
  \/ state = "L_IDLE" /\ pendingCreates = 0 /\ CreateRoomBegin(120)
  \/ CreateRoomFinish
  \/ \E p \in PeerIds : JoinBegin(p)
  \/ \E p \in PeerIds : JoinFinish(p)
  \/ \E p \in PeerIds : JoinHelloFailed(p)
  \/ \E p \in PeerIds : PeerBye(p)
  \/ \E p \in PeerIds, delay \in PongDelays, lead \in PeerClockLeads :
        HandleTimePong(p, delay, lead)
  \/ state = "L_ROOM_OPEN" /\ StartMetronome
  \/ \E bpm \in BpmValues : state # "L_IDLE" /\ SetBPM(bpm)
  \/ state # "L_IDLE" /\ CloseRoomBegin
  \/ CloseRoomFinish
  \/ \E id \in 1..(nextTimerId - 1) : PingIntervalFires(id)
  \/ \E id \in 1..(nextTimerId - 1) : StaleSweepFires(id)
  \/ SyncTick

SpecSync == Init /\ [][NextSync]_vars

\* The host's tracking of its followers on its own: joins, byes, pongs, the
\* close of the room and the interval timers, with the tempo left alone and
\* playback never started
NextTracking ==
  \/ state = "L_IDLE" /\ pendingCreates = 0 /\ CreateRoomBegin(120)
  \/ CreateRoomFinish
  \/ \E p \in PeerIds : JoinBegin(p)
  \/ \E p \in PeerIds : JoinFinish(p)
  \/ \E p \in PeerIds : JoinHelloFailed(p)
  \/ \E p \in PeerIds : PeerBye(p)
  \/ \E p \in PeerIds, delay \in PongDelays, lead \in PeerClockLeads :
        HandleTimePong(p, delay, lead)
  \/ state # "L_IDLE" /\ CloseRoomBegin
  \/ CloseRoomFinish
  \/ \E id \in 1..(nextTimerId - 1) : PingIntervalFires(id)
  \/ \E id \in 1..(nextTimerId - 1) : StaleSweepFires(id)
  \/ SyncTick

SpecTracking == Init /\ [][NextTracking]_vars

\* The host alone, used as its API prescribes (no follower joins, no call in a
\* state that rejects it, no stop before the audio of the start has settled,
\* room kept open), observed over a longer time
NextPlayback ==
  \/ \E bpm \in BpmValues : state = "L_IDLE" /\ pendingCreates = 0 /\ CreateRoomBegin(bpm)
  \/ CreateRoomFinish
  \/ state = "L_ROOM_OPEN" /\ StartMetronome
  \/ \E d \in ResumeOffsets, i \in ResumeBeatIndices :
        state = "L_ROOM_OPEN" /\ ResumeMetronomeFromAnchor(now + d, i)
  \/ state = "L_RUNNING" /\ pendingResumes = 0 /\ StopMetronome
  \/ \E bpm \in BpmValues : state # "L_IDLE" /\ SetBPM(bpm)
  \/ AudioResumeResolved
  \/ AudioResumeRejected
  \/ RefillTick
  \/ PlayTick

SpecPlayback == Init /\ [][NextPlayback]_vars


\* ---------------------------------- PeerPubSubConnectionManager, PeerStateMachine
\* The follower's state machine with the connection manager the transport
\* runtime gives it by default; every `await` on the signaling transport is a
\* point where other callbacks run

\* a follower call or delivery, within the explored depth
PeerCounted == peerEvents < MaxPeerEvents /\ peerEvents' = peerEvents + 1

\* a PeerPubSubConnectionManager after its constructor; `signaling` is the
\* state of the transport it was given, which joinRoom has connected
NewPeerManager ==
  [connected |-> FALSE, leaderId |-> "", joinRetryIntervalId |-> None, signaling |-> "up"]

\* the manager PeerStateMachine.connectionManager refers to
Manager == peerManagers[peerConnectionManager[1]]

PeerConnected == peerConnectionManager # None /\ Manager.connected

\* the transport hands the manager a message
PeerReceives == peerConnectionManager # None /\ Manager.signaling = "up"

\* variant: the sender is not compared with the known host
FromLeader_anyone(from) == PeerReceives

\* handleMessage lets a message other than leader_hello through
FromLeader(from) == PeerReceives /\ (Manager.leaderId = "" \/ from = Manager.leaderId)

\* PeerPubSubConnectionManager.sendTimeSync
peerSendTimeSync(m, type, payload) ==
  IF ~m.connected \/ m.leaderId = "" THEN <<>> ELSE <<Msg(type, m.leaderId, payload)>>

\* signaling.send(join) on the manager's transport, which throws when it is
\* not connected
sendJoin(m) ==
  IF m.signaling = "up" THEN <<Msg("join", "*", [peerId |-> "p1"])>> ELSE <<>>

\* joinRoom up to `await signaling.connect(...)`
PeerJoinRoomBegin ==
  /\ IF peerState # "C_IDLE"
     THEN /\ peerResult' = "throw"
          /\ UNCHANGED <<peerState, peerPendingConnects, offsetUpdates, appliedVersion,
                         peerEvents>>
     ELSE /\ PeerCounted
          /\ peerState' = "C_DISCOVERING"
          /\ peerPendingConnects' = peerPendingConnects + 1
          /\ offsetUpdates' = 0
          /\ appliedVersion' = None
          /\ peerResult' = "await"
  /\ peerSent' = <<>>
  /\ UNCHANGED <<unitVars, leaderVars, peerNow, peerConnectionManager, peerManagers,
                 peerClockSync, peerMetronome, startTimers, joinTimers, peerPendingSends,
                 peerPendingCloses, peerPendingResumes, peerRefillDue, announces>>

\* joinRoom after the await: connection manager, handlers, and the manager's
\* joinRoom up to `await this.sendJoin()`
PeerJoinRoomFinish ==
  LET id == Cardinality(DOMAIN peerManagers) + 1 IN
  /\ peerPendingConnects > 0
  /\ peerPendingConnects' = peerPendingConnects - 1
  /\ peerManagers' = MapSet(peerManagers, id, NewPeerManager)
  /\ peerConnectionManager' = Some(id)
  /\ peerState' = "C_SIGNALING"
  /\ peerSent' = sendJoin(NewPeerManager)
  /\ peerPendingSends' = peerPendingSends \cup {id}
  /\ peerResult' = "await"
  /\ UNCHANGED <<unitVars, leaderVars, peerNow, peerClockSync, peerMetronome, startTimers,
                 joinTimers, peerPendingCloses, peerPendingResumes, peerRefillDue,
                 offsetUpdates, announces, appliedVersion, peerEvents>>

\* the manager's joinRoom after the await: startJoinAnnounceLoop
PeerJoinSent(id) ==
  LET m == peerManagers[id]
      cleared == IF m.joinRetryIntervalId = None THEN joinTimers
                 ELSE {x \in joinTimers : x.id # m.joinRetryIntervalId[1]}
  IN
  /\ id \in peerPendingSends
  /\ peerPendingSends' = peerPendingSends \ {id}
  /\ joinTimers' = cleared \cup {[id |-> id, manager |-> id,
                                  dueMs |-> peerNow + JOIN_ANNOUNCE_INTERVAL_MS]}
  /\ peerManagers' = MapSet(peerManagers, id, [m EXCEPT !.joinRetryIntervalId = Some(id)])
  /\ peerSent' = <<>>
  /\ peerResult' = "ok"
  /\ UNCHANGED <<unitVars, leaderVars, peerNow, peerState, peerConnectionManager,
                 peerClockSync, peerMetronome, startTimers, peerPendingConnects,
                 peerPendingCloses, peerPendingResumes, peerRefillDue, offsetUpdates,
                 announces, appliedVersion, peerEvents>>

\* the setInterval callback of startJoinAnnounceLoop: `void this.sendJoin()`
JoinTimerFires(x) ==
  /\ x \in joinTimers
  /\ x.dueMs <= peerNow
  /\ joinTimers' = (joinTimers \ {x}) \cup {[x EXCEPT !.dueMs = @ + JOIN_ANNOUNCE_INTERVAL_MS]}
  /\ peerSent' = sendJoin(peerManagers[x.manager])
  /\ peerResult' = "join_announce"
  /\ UNCHANGED <<unitVars, leaderVars, peerNow, peerState, peerConnectionManager,
                 peerManagers, peerClockSync, peerMetronome, startTimers,
                 peerPendingConnects, peerPendingSends, peerPendingCloses,
                 peerPendingResumes, peerRefillDue, offsetUpdates, announces,
                 appliedVersion, peerEvents>>

\* handleMessage for leader_hello, with the onConnected callback joinRoom registered
HandleLeaderHello(from) ==
  LET wasConnected == Manager.connected
      previousLeaderId == Manager.leaderId
      leaderChanged == wasConnected /\ previousLeaderId # "" /\ previousLeaderId # from
  IN
  /\ PeerReceives
  /\ PeerCounted
  /\ IF ~wasConnected \/ leaderChanged
     THEN /\ peerManagers' = MapSet(peerManagers, peerConnectionManager[1],
                                [Manager EXCEPT !.leaderId = from, !.connected = TRUE])
          /\ peerState' = "C_SYNCING"
     ELSE /\ peerManagers' = MapSet(peerManagers, peerConnectionManager[1],
                                [Manager EXCEPT !.leaderId = from])
          /\ peerState' = peerState
  /\ peerSent' = <<>>
  /\ peerResult' = "leader_hello"
  /\ UNCHANGED <<unitVars, leaderVars, peerNow, peerConnectionManager, peerClockSync,
                 peerMetronome, startTimers, joinTimers, peerPendingConnects,
                 peerPendingSends, peerPendingCloses, peerPendingResumes, peerRefillDue,
                 offsetUpdates, announces, appliedVersion>>

\* handleMessage returns at once: the sender is not the known host
PeerDropMessage ==
  /\ peerSent' = <<>>
  /\ peerResult' = "dropped"
  /\ UNCHANGED <<unitVars, leaderVars, peerNow, peerState, peerConnectionManager,
                 peerManagers, peerClockSync, peerMetronome, startTimers, joinTimers,
                 peerPendingConnects, peerPendingSends, peerPendingCloses,
                 peerPendingResumes, peerRefillDue, offsetUpdates, announces,
                 appliedVersion, peerEvents>>

\* handleTimePing: the pong carries the ping's fields and the receive time twice
HandleTimePing(seq, t1LeaderMs) ==
  /\ PeerReceives
  /\ PeerCounted
  /\ peerSent' = peerSendTimeSync(Manager, "time_pong",
                      [seq |-> seq, t1LeaderMs |-> t1LeaderMs,
                       t2PeerMs |-> peerNow, t3PeerMs |-> peerNow])
  /\ peerResult' = "time_ping"
  /\ UNCHANGED <<unitVars, leaderVars, peerNow, peerState, peerConnectionManager,
                 peerManagers, peerClockSync, peerMetronome, startTimers, joinTimers,
                 peerPendingConnects, peerPendingSends, peerPendingCloses,
                 peerPendingResumes, peerRefillDue, offsetUpdates, announces,
                 appliedVersion>>

\* handleClockOffset
HandleClockOffset(offsetMs) ==
  /\ PeerReceives
  /\ PeerCounted
  /\ peerClockSync' = setOffsetMs(peerClockSync, offsetMs)
  /\ offsetUpdates' = offsetUpdates + 1
  /\ peerSent' = <<>>
  /\ peerResult' = "clock_offset"
  /\ UNCHANGED <<unitVars, leaderVars, peerNow, peerState, peerConnectionManager,
                 peerManagers, peerMetronome, startTimers, joinTimers, peerPendingConnects,
                 peerPendingSends, peerPendingCloses, peerPendingResumes, peerRefillDue,
                 announces, appliedVersion>>

\* a control message the onControl handler has no branch for
HandleOtherControl(type) ==
  /\ PeerReceives
  /\ PeerCounted
  /\ peerSent' = <<>>
  /\ peerResult' = type
  /\ UNCHANGED <<unitVars, leaderVars, peerNow, peerState, peerConnectionManager,
                 peerManagers, peerClockSync, peerMetronome, startTimers, joinTimers,
                 peerPendingConnects, peerPendingSends, peerPendingCloses,
                 peerPendingResumes, peerRefillDue, offsetUpdates, announces,
                 appliedVersion>>

HandleParamUpdate == HandleOtherControl("param_update")
HandleStopAnnounce == HandleOtherControl("stop_announce")

\* handleStartAnnounce: grid at the converted anchor, start timer; the
\* payload's version is not read
HandleStartAnnounce(bpm, version, anchorLeaderMs, beatIndexAtAnchor) ==
  LET offsetMs == getOffsetMs(peerClockSync)
      \* the scheduler model keeps whole milliseconds
      anchorPeerMs == DblFloor(DblAdd(DblFromInt(anchorLeaderMs), offsetMs))
      delayMs == Max(0, anchorPeerMs - peerNow)
      id == announces + 1
  IN
  /\ PeerReceives
  /\ PeerCounted
  /\ peerMetronome' = setBeatGrid(peerMetronome,
                         BeatGrid(bpm, anchorPeerMs, beatIndexAtAnchor), peerNow)
  /\ announces' = id
  /\ appliedVersion' = IF appliedVersion = None THEN Some(version)
                       ELSE Some(Max(version, appliedVersion[1]))
  /\ startTimers' = [i \in (DOMAIN startTimers) \cup {id} |->
                       IF i = id THEN [dueMs |-> peerNow + delayMs, bpm |-> bpm]
                       ELSE startTimers[i]]
  /\ peerSent' = <<>>
  /\ peerResult' = "start_announce"
  /\ UNCHANGED <<unitVars, leaderVars, peerNow, peerState, peerConnectionManager,
                 peerManagers, peerClockSync, joinTimers, peerPendingConnects,
                 peerPendingSends, peerPendingCloses, peerPendingResumes, peerRefillDue,
                 offsetUpdates>>

\* leaveRoom up to the first await of connectionManager.close(), or to its
\* end when there is no connection manager; close() clears the join interval
\* the manager holds; the start timers are not cancelled
LeaveRoom ==
  /\ PeerCounted
  /\ peerMetronome' = metronomeStop(peerMetronome)
  /\ IF peerConnectionManager # None
     THEN LET id == peerConnectionManager[1]
              m == [Manager EXCEPT !.joinRetryIntervalId = None]
              bye == m.connected /\ m.leaderId # ""
          IN
          /\ joinTimers' = IF Manager.joinRetryIntervalId = None THEN joinTimers
                           ELSE {x \in joinTimers : x.id # Manager.joinRetryIntervalId[1]}
          /\ peerManagers' = MapSet(peerManagers, id,
                                IF bye THEN m
                                ELSE [m EXCEPT !.connected = FALSE, !.leaderId = ""])
          /\ peerSent' = IF bye /\ m.signaling = "up"
                         THEN <<Msg("peer_bye", m.leaderId, <<>>)>> ELSE <<>>
          /\ peerPendingCloses' = peerPendingCloses \cup
                {[call |-> peerEvents', manager |-> id,
                  phase |-> IF bye THEN "bye" ELSE "disconnect"]}
          /\ peerResult' = "await"
          /\ UNCHANGED <<peerState, peerClockSync>>
     ELSE /\ peerState' = "C_IDLE"
          /\ peerClockSync' = clockSyncReset(peerClockSync)
          /\ peerSent' = <<>>
          /\ peerResult' = "ok"
          /\ UNCHANGED <<peerManagers, joinTimers, peerPendingCloses>>
  /\ UNCHANGED <<unitVars, leaderVars, peerNow, peerConnectionManager, startTimers,
                 peerPendingConnects, peerPendingSends, peerPendingResumes, peerRefillDue,
                 offsetUpdates, announces, appliedVersion>>

\* handleRoomClosed
HandleRoomClosed == PeerReceives /\ LeaveRoom

\* close() after `await signaling.send(bye)`, up to `await signaling.disconnect()`
PeerByeSent(c) ==
  /\ c \in peerPendingCloses
  /\ c.phase = "bye"
  /\ peerPendingCloses' = (peerPendingCloses \ {c}) \cup {[c EXCEPT !.phase = "disconnect"]}
  /\ peerManagers' = MapSet(peerManagers, c.manager,
                        [peerManagers[c.manager] EXCEPT !.connected = FALSE, !.leaderId = ""])
  /\ peerSent' = <<>>
  /\ peerResult' = "await"
  /\ UNCHANGED <<unitVars, leaderVars, peerNow, peerState, peerConnectionManager,
                 peerClockSync, peerMetronome, startTimers, joinTimers,
                 peerPendingConnects, peerPendingSends, peerPendingResumes, peerRefillDue,
                 offsetUpdates, announces, appliedVersion, peerEvents>>

\* the transport has disconnected; leaveRoom after the await
LeaveRoomFinish(c) ==
  /\ c \in peerPendingCloses
  /\ c.phase = "disconnect"
  /\ peerPendingCloses' = peerPendingCloses \ {c}
  /\ peerManagers' = MapSet(peerManagers, c.manager,
                        [peerManagers[c.manager] EXCEPT !.signaling = "down"])
  /\ peerConnectionManager' = None
  /\ peerState' = "C_IDLE"
  /\ peerClockSync' = clockSyncReset(peerClockSync)
  /\ peerSent' = <<>>
  /\ peerResult' = "ok"
  /\ UNCHANGED <<unitVars, leaderVars, peerNow, peerMetronome, startTimers, joinTimers,
                 peerPendingConnects, peerPendingSends, peerPendingResumes, peerRefillDue,
                 offsetUpdates, announces, appliedVersion, peerEvents>>

\* the setTimeout callback of handleStartAnnounce
StartTimerFires(id) ==
  /\ id \in DOMAIN startTimers
  /\ startTimers[id].dueMs <= peerNow
  /\ startTimers' = [i \in (DOMAIN startTimers) \ {id} |-> startTimers[i]]
  /\ peerMetronome' = metronomeStart(peerMetronome, startTimers[id].bpm, peerNow)
  /\ peerPendingResumes' = IF peerMetronome.isRunning THEN peerPendingResumes
                           ELSE peerPendingResumes + 1
  /\ peerState' = "C_RUNNING"
  /\ peerSent' = <<>>
  /\ peerResult' = "started"
  /\ UNCHANGED <<unitVars, leaderVars, peerNow, peerConnectionManager, peerManagers,
                 peerClockSync, joinTimers, peerPendingConnects, peerPendingSends,
                 peerPendingCloses, peerRefillDue, offsetUpdates, announces,
                 appliedVersion, peerEvents>>

\* the resume() promise of the follower's start() fulfils
PeerAudioResumeResolved ==
  /\ peerPendingResumes > 0
  /\ peerPendingResumes' = peerPendingResumes - 1
  /\ peerMetronome' = [startSchedulerIfNeeded(peerMetronome, peerNow)
                         EXCEPT !.waitingForUserGesture = FALSE]
  /\ peerSent' = <<>>
  /\ peerResult' = "ok"
  /\ UNCHANGED <<unitVars, leaderVars, peerNow, peerState, peerConnectionManager,
                 peerManagers, peerClockSync, startTimers, joinTimers, peerPendingConnects,
                 peerPendingSends, peerPendingCloses, peerRefillDue, offsetUpdates,
                 announces, appliedVersion, peerEvents>>

\* the resume() promise of the follower's start() rejects
PeerAudioResumeRejected ==
  /\ peerPendingResumes > 0
  /\ peerPendingResumes' = peerPendingResumes - 1
  /\ peerMetronome' = [peerMetronome EXCEPT !.waitingForUserGesture = TRUE]
  /\ peerSent' = <<>>
  /\ peerResult' = "ok"
  /\ UNCHANGED <<unitVars, leaderVars, peerNow, peerState, peerConnectionManager,
                 peerManagers, peerClockSync, startTimers, joinTimers, peerPendingConnects,
                 peerPendingSends, peerPendingCloses, peerRefillDue, offsetUpdates,
                 announces, appliedVersion, peerEvents>>

\* the setInterval callback of the follower's scheduler
PeerRefillTick ==
  /\ peerRefillDue
  /\ peerMetronome.schedulerIntervalId
  /\ peerRefillDue' = FALSE
  /\ peerMetronome' = IF peerMetronome.isRunning
                      THEN scheduleAhead(peerMetronome, peerNow) ELSE peerMetronome
  /\ peerSent' = <<>>
  /\ peerResult' = "ok"
  /\ UNCHANGED <<unitVars, leaderVars, peerNow, peerState, peerConnectionManager,
                 peerManagers, peerClockSync, startTimers, joinTimers, peerPendingConnects,
                 peerPendingSends, peerPendingCloses, peerPendingResumes, offsetUpdates,
                 announces, appliedVersion, peerEvents>>

\* a start timer, the scheduler or a pending audio resume keeps the page busy
PeerBusy ==
  \/ DOMAIN startTimers # {}
  \/ peerMetronome.schedulerIntervalId
  \/ peerMetronome.scheduledSources # {}
  \/ peerPendingResumes > 0

\* the follower's clock advances by one refill period while the scheduler or a
\* start is pending, else to the time of the next join announce; timers and
\* the refill that are due run first
PeerTick ==
  /\ \A id \in DOMAIN startTimers : startTimers[id].dueMs > peerNow
  /\ \A x \in joinTimers : x.dueMs > peerNow
  /\ ~(peerRefillDue /\ peerMetronome.schedulerIntervalId)
  /\ IF PeerBusy
     THEN /\ peerNow < MaxPeerTime
          /\ peerNow' = peerNow + REFILL_INTERVAL_MS
     ELSE \E x \in joinTimers :
            /\ \A y \in joinTimers : y.dueMs >= x.dueMs
            /\ x.dueMs <= MaxJoinTime
            /\ peerNow' = x.dueMs
  /\ peerRefillDue' = PeerBusy
  /\ peerMetronome' = [peerMetronome EXCEPT
        !.scheduledSources = @ \ Due(peerMetronome, peerNow'),
        !.scheduledVisualTimeoutIds = {e \in @ : e.timeMs > peerNow'}]
  /\ peerSent' = <<>>
  /\ peerResult' = "ok"
  /\ UNCHANGED <<unitVars, leaderVars, peerState, peerConnectionManager, peerManagers,
                 peerClockSync, startTimers, joinTimers, peerPendingConnects,
                 peerPendingSends, peerPendingCloses, peerPendingResumes, offsetUpdates,
                 announces, appliedVersion, peerEvents>>

\* A follower and the messages hosts can send it, in every order
NextPeer ==
  \/ PeerJoinRoomBegin
  \/ PeerJoinRoomFinish
  \/ \E id \in peerPendingSends : PeerJoinSent(id)
  \/ \E x \in joinTimers : JoinTimerFires(x)
  \/ \E from \in HostIds : HandleLeaderHello(from)
  \/ \E from \in HostIds : PeerReceives /\ ~FromLeader(from) /\ PeerDropMessage
  \/ \E from \in HostIds, seq \in PingSeqs : FromLeader(from) /\ HandleTimePing(seq, 0)
  \/ \E from \in HostIds, o \in OffsetValues :
        FromLeader(from) /\ HandleClockOffset(DblFromInt(o))
  \/ \E from \in HostIds : FromLeader(from) /\ HandleParamUpdate
  \/ \E from \in HostIds : FromLeader(from) /\ HandleStopAnnounce
  \/ \E from \in HostIds, a \in Announcements :
        FromLeader(from)
        /\ HandleStartAnnounce(a.bpm, a.version, a.anchorLeaderMs, a.beatIndexAtAnchor)
  \/ \E from \in HostIds : FromLeader(from) /\ HandleRoomClosed
  \/ LeaveRoom
  \/ \E c \in peerPendingCloses : PeerByeSent(c)
  \/ \E c \in peerPendingCloses : LeaveRoomFinish(c)
  \/ \E id \in DOMAIN startTimers : StartTimerFires(id)
  \/ PeerAudioResumeResolved
  \/ PeerAudioResumeRejected
  \/ PeerRefillTick
  \/ PeerTick

SpecPeer == Init /\ [][NextPeer]_vars

\* handleMessage for a message that is not a leader_hello: the sender filter,
\* then time_ping, then the control types; any other type falls through
PeerHandleMessage(from) ==
  \/ PeerReceives /\ ~FromLeader(from) /\ PeerDropMessage
  \/ \E seq \in PingSeqs : FromLeader(from) /\ HandleTimePing(seq, 0)
  \/ \E o \in OffsetValues : FromLeader(from) /\ HandleClockOffset(DblFromInt(o))
  \/ FromLeader(from) /\ HandleParamUpdate
  \/ FromLeader(from) /\ HandleStopAnnounce
  \/ \E a \in Announcements :
        FromLeader(from)
        /\ HandleStartAnnounce(a.bpm, a.version, a.anchorLeaderMs, a.beatIndexAtAnchor)
  \/ FromLeader(from) /\ HandleRoomClosed
  \/ FromLeader(from) /\ PeerDropMessage

\* A follower that joins a room, and every message the channel can hand it
\* at one instant of its clock: hellos and messages of two hosts, and the
\* join, bye and pong messages of other followers, which it does not consume.
\* The join announce interval and the refill timer do not come due
NextInbox ==
  \/ PeerJoinRoomBegin
  \/ PeerJoinRoomFinish
  \/ \E id \in peerPendingSends : PeerJoinSent(id)
  \/ \E from \in HostIds : HandleLeaderHello(from)
  \/ \E from \in HostIds : PeerHandleMessage(from)
  \/ \E c \in peerPendingCloses : PeerByeSent(c)
  \/ \E c \in peerPendingCloses : LeaveRoomFinish(c)
  \/ \E id \in DOMAIN startTimers : StartTimerFires(id)
  \/ PeerAudioResumeResolved
  \/ PeerAudioResumeRejected

SpecInbox == Init /\ [][NextInbox]_vars

\* ------------------------------------------- host and follower on one channel
\* The host's page and one follower's page joined by the pub/sub channel: what
\* a handler sends is carried to the other side and handled there OneWayDelayMs
\* later, in the order it was sent. The follower's clock reads LinkClockLeadMs
\* more than the host's at every instant; `now` is the common time line.
LinkHostId == "h1"

\* the follower's page clock is started LinkClockLeadMs before the host's
LinkClockSkew ==
  /\ peerNow # now + LinkClockLeadMs
  /\ peerNow' = now + LinkClockLeadMs
  /\ peerSent' = <<>>
  /\ peerResult' = "ok"
  /\ UNCHANGED <<unitVars, leaderVars, peerState, peerConnectionManager, peerManagers,
                 peerClockSync, peerMetronome, startTimers, joinTimers,
                 peerPendingConnects, peerPendingSends, peerPendingCloses,
                 peerPendingResumes, peerRefillDue, offsetUpdates, announces,
                 appliedVersion, peerEvents>>

\* a delivered message waits for its handler
LinkUndelivered ==
  /\ link.inbox # None
  /\ \/ link.inbox[1].dest = "host" /\ result = "deliver"
     \/ link.inbox[1].dest = "peer" /\ peerResult = "deliver"

\* nothing is left of the last handler: its messages are on the channel
LinkQuiet ==
  /\ peerNow = now + LinkClockLeadMs
  /\ sent = <<>> /\ peerSent = <<>>
  /\ ~LinkUndelivered

\* the message the host (the follower) is handed now
LinkInbox(dest) ==
  IF link.inbox # None /\ link.inbox[1].dest = dest /\ sent = <<>> /\ peerSent = <<>>
     /\ (IF dest = "host" THEN result ELSE peerResult) = "deliver"
  THEN {link.inbox[1].msg} ELSE {}

LinkOutgoing(dest, msgs) ==
  {[dest |-> dest, msg |-> msgs[i], atMs |-> now + OneWayDelayMs, n |-> link.count + i] :
     i \in 1..Len(msgs)}

\* signaling.send: the channel takes what the last handler sent
LinkCarry ==
  /\ sent # <<>> \/ peerSent # <<>>
  /\ link' = [link EXCEPT
        !.inFlight = @ \cup LinkOutgoing("peer", sent) \cup LinkOutgoing("host", peerSent),
        !.count = @ + Len(sent) + Len(peerSent)]
  /\ sent' = <<>>
  /\ peerSent' = <<>>
  /\ UNCHANGED <<clockSync, stats, fed, fedBeforeReset, rttWindow, pushed,
                 now, state, roomState, connectionManager, pingIntervals, pingSeq,
                 clockSyncs, staleSweepIntervalId, timers, nextTimerId, metronome,
                 pendingCreates, pendingCloses, pendingJoins, pendingResumes, refillDue,
                 result, dispatched, calls,
                 peerNow, peerState, peerConnectionManager, peerManagers, peerClockSync,
                 peerMetronome, startTimers, joinTimers, peerPendingConnects,
                 peerPendingSends, peerPendingCloses, peerPendingResumes, peerRefillDue,
                 peerResult, offsetUpdates, announces, appliedVersion, peerEvents>>

\* the channel's onMessage callback is about to run with the oldest message
\* that has arrived
LinkDeliver ==
  /\ LinkQuiet
  /\ \E x \in link.inFlight :
       /\ x.atMs <= now
       /\ \A y \in link.inFlight : y.n >= x.n
       /\ link' = [link EXCEPT !.inFlight = @ \ {x},
                               !.inbox = Some([dest |-> x.dest, msg |-> x.msg])]
       /\ result' = IF x.dest = "host" THEN "deliver" ELSE result
       /\ peerResult' = IF x.dest = "peer" THEN "deliver" ELSE peerResult
  /\ UNCHANGED <<clockSync, stats, fed, fedBeforeReset, rttWindow, pushed,
                 now, state, roomState, connectionManager, pingIntervals, pingSeq,
                 clockSyncs, staleSweepIntervalId, timers, nextTimerId, metronome,
                 pendingCreates, pendingCloses, pendingJoins, pendingResumes, refillDue,
                 sent, dispatched, calls,
                 peerNow, peerState, peerConnectionManager, peerManagers, peerClockSync,
                 peerMetronome, startTimers, joinTimers, peerPendingConnects,
                 peerPendingSends, peerPendingCloses, peerPendingResumes, peerRefillDue,
                 peerSent, offsetUpdates, announces, appliedVersion, peerEvents>>

\* the times, on the common line, at which something is due
LinkDueTimes ==
  {x.atMs : x \in link.inFlight} \cup {x.dueMs : x \in timers}
  \cup {startTimers[id].dueMs - LinkClockLeadMs : id \in DOMAIN startTimers}
  \cup {x.dueMs - LinkClockLeadMs : x \in joinTimers}

\* both clocks advance to the next arrival or timer; the awaits of the
\* transport and of the follower's audio have settled, and the observation ends
\* when the follower's scheduler is armed
LinkTick ==
  /\ LinkQuiet
  /\ pendingCreates = 0 /\ \A p \in DOMAIN pendingJoins : pendingJoins[p] = 0
  /\ peerPendingConnects = 0 /\ peerPendingSends = {} /\ peerPendingResumes = 0
  /\ ~peerMetronome.schedulerIntervalId /\ ~metronome.schedulerIntervalId
  /\ LinkDueTimes # {}
  /\ \A t \in LinkDueTimes : t > now
  /\ \E t \in LinkDueTimes :
       /\ \A u \in LinkDueTimes : u >= t
       /\ t <= MaxLinkTime
       /\ now' = t
       /\ peerNow' = t + LinkClockLeadMs
  /\ calls' = 0
  /\ peerEvents' = 0
  /\ UNCHANGED <<unitVars, state, roomState, connectionManager, pingIntervals, pingSeq,
                 clockSyncs, staleSweepIntervalId, timers, nextTimerId, metronome,
                 pendingCreates, pendingCloses, pendingJoins, pendingResumes, refillDue,
                 sent, result, dispatched,
                 peerState, peerConnectionManager, peerManagers, peerClockSync,
                 peerMetronome, startTimers, joinTimers, peerPendingConnects,
                 peerPendingSends, peerPendingCloses, peerPendingResumes, peerRefillDue,
                 peerSent, peerResult, offsetUpdates, announces, appliedVersion>>

\* the clock lead a pong's timestamps carry, given its round trip
PongLead(pong, delay) == pong.t2PeerMs - pong.t1LeaderMs - delay \div 2

\* One host at 120 BPM and one follower that joins its room; the host starts
\* the metronome once the follower holds an offset. The audio resume of the
\* host stays pending
NextLink ==
  \/ LinkClockSkew
  \/ LinkQuiet /\ state = "L_IDLE" /\ pendingCreates = 0 /\ CreateRoomBegin(120)
  \/ CreateRoomFinish
  \/ LinkQuiet /\ state = "L_ROOM_OPEN" /\ peerState = "C_IDLE"
       /\ peerPendingCloses = {} /\ announces = 0 /\ PeerJoinRoomBegin
  \/ LinkQuiet /\ PeerJoinRoomFinish
  \/ \E id \in peerPendingSends : LinkQuiet /\ PeerJoinSent(id)
  \/ \E x \in joinTimers : LinkQuiet /\ JoinTimerFires(x)
  \/ \E m \in LinkInbox("host") : m.type = "join" /\ JoinBegin(m.payload.peerId)
  \/ \E p \in PeerIds : LinkQuiet /\ JoinFinish(p)
  \/ \E m \in LinkInbox("host") :
        /\ m.type = "time_pong"
        /\ HandleTimePong("p1", now - m.payload.t1LeaderMs,
                          PongLead(m.payload, now - m.payload.t1LeaderMs))
  \/ \E id \in 1..(nextTimerId - 1) : LinkQuiet /\ PingIntervalFires(id)
  \/ \E id \in 1..(nextTimerId - 1) : LinkQuiet /\ StaleSweepFires(id)
  \/ LinkQuiet /\ state = "L_ROOM_OPEN" /\ offsetUpdates >= 1 /\ StartMetronome
  \/ \E m \in LinkInbox("peer") : m.type = "leader_hello" /\ HandleLeaderHello(LinkHostId)
  \/ \E m \in LinkInbox("peer") :
        /\ m.type = "time_ping" /\ FromLeader(LinkHostId)
        /\ HandleTimePing(m.payload.seq, m.payload.t1LeaderMs)
  \/ \E m \in LinkInbox("peer") :
        /\ m.type = "clock_offset" /\ FromLeader(LinkHostId)
        /\ HandleClockOffset(m.payload.offsetMs)
  \/ \E m \in LinkInbox("peer") :
        m.type = "param_update" /\ FromLeader(LinkHostId) /\ HandleParamUpdate
  \/ \E m \in LinkInbox("peer") :
        /\ m.type = "start_announce" /\ FromLeader(LinkHostId)
        /\ HandleStartAnnounce(m.payload.bpm, m.payload.version,
                               m.payload.anchorLeaderMs, m.payload.beatIndexAtAnchor)
  \/ \E id \in DOMAIN startTimers : LinkQuiet /\ StartTimerFires(id)
  \/ LinkQuiet /\ PeerAudioResumeResolved
  \/ LinkCarry
  \/ LinkDeliver
  \/ LinkTick

SpecLink == Init /\ [][NextLink]_vars


\* --------------------------------------- ClockSync and RTTWindow on their own
\* processPong(t1, t2, t3, t4) on the instance; the call returns getStats()
ClockProcessPong(s) ==
  /\ Len(fed) < MaxClockOps
  /\ clockSync' = processPong(clockSync, DblFromInt(s[1]), DblFromInt(s[2]),
                              DblFromInt(s[3]), DblFromInt(s[4]))
  /\ stats' = Some(getStats(clockSync'))
  /\ fed' = Append(fed, [op |-> "processPong", args |-> s])
  /\ UNCHANGED <<leaderVars, followerVars, fedBeforeReset, rttWindow, pushed, link>>

ClockSetOffsetMs(x) ==
  /\ Len(fed) < MaxClockOps
  /\ clockSync' = setOffsetMs(clockSync, DblFromInt(x))
  /\ stats' = None
  /\ fed' = Append(fed, [op |-> "setOffsetMs", args |-> <<x>>])
  /\ UNCHANGED <<leaderVars, followerVars, fedBeforeReset, rttWindow, pushed, link>>

ClockReset ==
  /\ fed # <<>>
  /\ clockSync' = clockSyncReset(clockSync)
  /\ stats' = None
  /\ fed' = <<>>
  /\ fedBeforeReset' = Len(fed)
  /\ UNCHANGED <<leaderVars, followerVars, rttWindow, pushed, link>>

NextClock ==
  \/ \E s \in PongSamples : ClockProcessPong(s)
  \/ \E x \in DirectOffsets : ClockSetOffsetMs(x)
  \/ ClockReset

SpecClock == Init /\ [][NextClock]_vars

WindowAdd(rtt) ==
  /\ Len(pushed) < MaxPushes
  /\ rttWindow' = RTTWindowAdd(rttWindow, DblFromInt(rtt))
  /\ pushed' = Append(pushed, rtt)
  /\ UNCHANGED <<leaderVars, followerVars, clockSync, stats, fed, fedBeforeReset, link>>

\* RTTWindow.clear
WindowClear ==
  /\ pushed # <<>>
  /\ rttWindow' = <<>>
  /\ pushed' = <<>>
  /\ UNCHANGED <<leaderVars, followerVars, clockSync, stats, fed, fedBeforeReset, link>>

NextWindow ==
  \/ \E rtt \in RttStream(Len(pushed) + 1) : WindowAdd(rtt)
  \/ WindowClear

SpecWindow == Init /\ [][NextWindow]_vars


\* ------------------------------------------------------------ properties
\* what a rejected call must leave alone: host state, RoomState, connection,
\* per-peer bookkeeping, timers, scheduler and suspended calls
hostVars == <<state, roomState, connectionManager, pingIntervals, pingSeq,
              clockSyncs, staleSweepIntervalId, metronome, pendingCreates,
              pendingCloses, pendingJoins, pendingResumes>>

RoomOpenForCalls == roomState # None /\ connectionManager # None
RunningWithAnchor == RoomOpenForCalls /\ state = "L_RUNNING" /\ Room.startAtLeaderMs # None

\* C1 (as claimed): a setBPM that changes the tempo while Running stores and
\* announces a re-anchor time changeAt with changeAt >= now + 300ms.
C1_LeadAtLeast300 ==
  [][\A bpm \in BpmValues :
       (RunningWithAnchor /\ Room.bpm # bpm /\ SetBPM(bpm))
       => /\ roomState'[1].startAtLeaderMs[1] >= now + BPM_CHANGE_LEAD_MS
          /\ sent'[1].payload.anchorLeaderMs >= now + BPM_CHANGE_LEAD_MS]_vars

\* C2 (as claimed): the clicks that sound carry consecutive beat indices, also
\* across a tempo change: of two clicks sounding one after the other in a run
\* the second has the index of the first plus one.
C2_ConsecutiveBeats ==
  Len(dispatched) = 2 => dispatched[2] = dispatched[1] + 1

\* C3 (as claimed): a start_announce that arrives while the follower has
\* received fewer than 2 clock_offset updates is held pending: handling it
\* schedules no start of playback.
C3_StartHeldUntilTwoOffsets ==
  [][\A a \in Announcements :
       (offsetUpdates < 2
        /\ HandleStartAnnounce(a.bpm, a.version, a.anchorLeaderMs, a.beatIndexAtAnchor))
       => startTimers' = startTimers]_vars

\* C4: a step that calls stop() on a running scheduler leaves it stopped, with
\* the refill interval cancelled and no pending sound or visual callback.
C4_StopLeavesNothingPending ==
  [][(metronome.isRunning
       /\ ((state = "L_RUNNING" /\ StopMetronome) \/ (state # "L_IDLE" /\ CloseRoomBegin)))
       => /\ ~metronome'.isRunning
          /\ ~metronome'.schedulerIntervalId
          /\ metronome'.scheduledSources = {}
          /\ metronome'.scheduledVisualTimeoutIds = {}]_vars

\* the scheduler was stopped by stopMetronome while sounds were scheduled ahead
C4_Witness ==
  /\ state = "L_ROOM_OPEN"
  /\ Len(sent) = 1 /\ sent[1].type = "stop_announce"
  /\ metronome.nextBeatIndex > 1
  /\ ~metronome.isRunning /\ metronome.scheduledSources = {}

\* C5: a setBPM that changes the tempo while Running puts the new anchor on the
\* old grid: changeAt - previousAnchor is a whole number of old beats, and the
\* announced (and stored) beat index is the old anchor index plus that number.
C5_AnchorOnOldGrid ==
  [][\A bpm \in BpmValues :
       (RunningWithAnchor /\ Room.bpm # bpm /\ SetBPM(bpm))
       => LET old == Room
              oldIndex == IF old.beatIndexAtAnchor = None THEN 0 ELSE old.beatIndexAtAnchor[1]
              ann == sent'[1].payload
              delta == ann.anchorLeaderMs - old.startAtLeaderMs[1]
          IN /\ Len(sent') = 1 /\ sent'[1].type = "start_announce"
             /\ delta % MsPerBeat(old.bpm) = 0
             /\ ann.beatIndexAtAnchor = oldIndex + delta \div MsPerBeat(old.bpm)
             /\ roomState'[1].startAtLeaderMs = Some(ann.anchorLeaderMs)
             /\ roomState'[1].beatIndexAtAnchor = Some(ann.beatIndexAtAnchor)]_vars

\* a tempo change re-anchored the running grid in the middle of a beat
C5_Witness ==
  /\ RunningWithAnchor
  /\ Room.version > 0
  /\ Room.beatIndexAtAnchor[1] \notin ({0} \cup ResumeBeatIndices)
  /\ Len(sent) = 1 /\ sent[1].type = "start_announce"
  /\ sent[1].payload.anchorLeaderMs = Room.startAtLeaderMs[1]
  /\ now > 0 /\ now % MsPerBeat(120) # 0

\* C6: on an open room setBPM with the current tempo changes neither RoomState
\* nor the scheduler and sends nothing, and setBPM with another tempo sends
\* exactly one broadcast and raises the version by one; so setBPM(v) twice in
\* a row gives one broadcast and one increment in total.
C6_SetBPMIdempotent ==
  [][\A bpm \in BpmValues :
       (RoomOpenForCalls /\ SetBPM(bpm))
       => IF Room.bpm = bpm
          THEN sent' = <<>> /\ roomState' = roomState /\ metronome' = metronome
          ELSE /\ Len(sent') = 1 /\ sent'[1].to = "*"
               /\ roomState'[1].version = Room.version + 1
               /\ roomState'[1].bpm = bpm]_vars

\* setBPM was repeated with the value of an earlier effective setBPM
C6_Witness ==
  /\ RoomOpenForCalls
  /\ result = "unchanged" /\ sent = <<>>
  /\ Room.version > 0

\* C7: while a room exists its version never decreases; it grows by exactly one
\* on a setBPM with a tempo other than the current one (on an open room) and
\* no other operation changes it.
C7_VersionMonotone ==
  [][(roomState # None /\ roomState' # None)
       => /\ \/ roomState'[1].version = Room.version
             \/ /\ roomState'[1].version = Room.version + 1
                /\ roomState'[1].bpm # Room.bpm
                /\ \E bpm \in BpmValues : SetBPM(bpm)
          /\ \A bpm \in BpmValues :
               (connectionManager # None /\ Room.bpm # bpm /\ SetBPM(bpm))
               => roomState'[1].version = Room.version + 1]_vars

\* two tempo changes were made on a room that a follower has joined
C7_Witness ==
  /\ roomState # None
  /\ Room.version = 2
  /\ DOMAIN Room.peers # {}

\* C8 (as claimed): while a room exists, status is running iff the anchor time
\* is defined.
C8_RunningIffAnchor ==
  roomState # None => ((Room.status = "running") <=> (Room.startAtLeaderMs # None))

\* C9: createRoom outside Idle and startMetronome outside RoomOpen throw and
\* change nothing and send nothing.
C9_MisuseRejected ==
  [][((state # "L_IDLE" /\ \E bpm \in BpmValues : CreateRoomBegin(bpm))
        \/ (state # "L_ROOM_OPEN" /\ StartMetronome))
       => /\ result' = "throw"
          /\ sent' = <<>>
          /\ UNCHANGED hostVars]_vars

\* a call was rejected while the host was Running with a follower tracked
C9_Witness ==
  /\ result = "throw"
  /\ state = "L_RUNNING"
  /\ roomState # None /\ DOMAIN Room.peers # {}

RoomGrid(rs) == BeatGrid(rs.bpm, rs.startAtLeaderMs[1], rs.beatIndexAtAnchor[1])

\* the start_announce payload that names the grid and version of RoomState
RoomAnnouncement(rs) ==
  [bpm |-> rs.bpm, version |-> rs.version,
   anchorLeaderMs |-> rs.startAtLeaderMs[1],
   beatIndexAtAnchor |-> rs.beatIndexAtAnchor[1]]

\* C11: whenever a step leaves the host Running, the grid of the host's own
\* scheduler equals the grid stored in RoomState; every start_announce the step
\* sends carries that grid; a step that enters Running or changes the grid
\* broadcasts exactly one such start_announce; startMetronome anchors at the
\* call time with beat index 0 and resumeMetronomeFromAnchor at the anchor and
\* index it was given.
C11_GridsAgree ==
  [][(state' = "L_RUNNING" /\ roomState' # None)
       => /\ Room'.startAtLeaderMs # None /\ Room'.beatIndexAtAnchor # None
          /\ metronome'.beatGrid = Some(RoomGrid(Room'))
          /\ \A i \in 1..Len(sent') :
                sent'[i].type = "start_announce"
                => sent'[i].payload = RoomAnnouncement(Room')
          /\ (state # "L_RUNNING" \/ roomState = None \/ Room.startAtLeaderMs = None
                \/ RoomGrid(Room') # RoomGrid(Room))
             => sent' = <<Msg("start_announce", "*", RoomAnnouncement(Room'))>>
          /\ (state = "L_ROOM_OPEN" /\ StartMetronome)
             => RoomGrid(Room') = BeatGrid(Room.bpm, now, 0)
          /\ \A d \in ResumeOffsets, i \in ResumeBeatIndices :
                (state = "L_ROOM_OPEN" /\ ResumeMetronomeFromAnchor(now + d, i))
                => RoomGrid(Room') = BeatGrid(Room.bpm, now + d, i)]_vars

\* a tempo change re-anchored a playback that was resumed from an anchor, and
\* the scheduler, RoomState and the broadcast name the same new grid
C11_Witness ==
  /\ RunningWithAnchor
  /\ Room.version > 0
  /\ Room.beatIndexAtAnchor[1] > 7
  /\ metronome.beatGrid = Some(RoomGrid(Room))
  /\ sent = <<Msg("start_announce", "*", RoomAnnouncement(Room))>>

\* C12: stopMetronome from Running stops the local scheduler, sets the
\* RoomState status to open and the host state to RoomOpen and broadcasts one
\* stop_announce; tempo, version, anchor and tracked peers of RoomState, the
\* connection, the ping loops, ping sequence numbers and ClockSync instances
\* are unchanged, and the guards of startMetronome hold afterwards.
C12_StopKeepsRoom ==
  [][(state = "L_RUNNING" /\ StopMetronome)
       => /\ ~metronome'.isRunning /\ ~metronome'.schedulerIntervalId
          /\ state' = "L_ROOM_OPEN"
          /\ sent' = (IF connectionManager = None THEN <<>>
                      ELSE <<Msg("stop_announce", "*", <<>>)>>)
          /\ roomState # None
             => /\ roomState' # None
                /\ Room'.status = "open"
                /\ Room' = [Room EXCEPT !.status = "open"]
          /\ UNCHANGED <<connectionManager, pingIntervals, pingSeq, clockSyncs,
                         staleSweepIntervalId>>
          /\ (roomState # None /\ connectionManager # None)
             => (state' = "L_ROOM_OPEN" /\ roomState' # None
                 /\ connectionManager' # None)]_vars

\* playback was stopped on a room that still tracks a follower and its ping loop
C12_Witness ==
  /\ state = "L_ROOM_OPEN"
  /\ sent = <<Msg("stop_announce", "*", <<>>)>>
  /\ roomState # None /\ DOMAIN Room.peers # {}
  /\ DOMAIN pingIntervals # {} /\ DOMAIN clockSyncs # {}
  /\ Room.startAtLeaderMs # None


\* rtt and raw offset of a pong <<t1, t2, t3, t4>>, in exact arithmetic
SampleRtt(s) == (s[4] - s[1]) - (s[3] - s[2])
SampleRawOffset(s) == DblHalf(DblFromInt((s[2] - s[1]) + (s[3] - s[4])))
LastFed == fed[Len(fed)]
\* rtt > 1.5 * median of the window w, the sample included
IsOutlier(w, rtt) == DblLt(DblMul(getMedian(w)[1], DblFromRatio(15, 10)), rtt)
\* 0.3 * x + 0.7 * previous
Smoothed(x, previous) ==
  DblAdd(DblMul(DblFromRatio(3, 10), x), DblMul(DblFromRatio(7, 10), previous))

\* the step is a call of `op` on the ClockSync instance; NewSample is its pong
FedStep(op) == Len(fed') = Len(fed) + 1 /\ fed'[Len(fed')].op = op
NewSample == fed'[Len(fed')].args

\* C16: a processPong whose rtt is greater than 1.5 times the median of the
\* window (the sample included) leaves the smoothed offset and the filter value
\* as they were, and the window records the sample: it is the newest entry and
\* the median the call reports is taken over a window that holds it.
C16_OutlierLeavesOffset ==
  [][(FedStep("processPong")
      /\ IsOutlier(RTTWindowAdd(clockSync.rttWindow, DblFromInt(SampleRtt(NewSample))),
                   DblFromInt(SampleRtt(NewSample))))
     => /\ clockSync'.currentOffsetMs = clockSync.currentOffsetMs
        /\ clockSync'.offsetFilter = clockSync.offsetFilter
        /\ Len(clockSync'.rttWindow) = Len(clockSync.rttWindow) + 1
        /\ clockSync'.rttWindow[Len(clockSync'.rttWindow)] = DblFromInt(SampleRtt(NewSample))
        /\ stats'[1].rtt = getMedian(clockSync'.rttWindow)[1]
        /\ stats'[1].offsetMs = clockSync.currentOffsetMs]_vars

\* an outlier of rtt 100 was recorded after samples of rtt 10 had set the offset
C16_Witness ==
  /\ Len(fed) >= 2
  /\ LastFed.op = "processPong" /\ SampleRtt(LastFed.args) = 100
  /\ fed[1].op = "processPong" /\ SampleRtt(fed[1].args) = 10
  /\ IsOutlier(clockSync.rttWindow, DblFromInt(100))
  /\ clockSync.currentOffsetMs = DblFromInt(3)
  /\ clockSync.rttWindow[Len(clockSync.rttWindow)] = DblFromInt(100)

\* C17 (as claimed): after k >= 1 identical samples on a fresh or reset
\* ClockSync the offset is exactly the samples' raw offset, and the stable flag
\* returned is true exactly when k >= 5.
C17_IdenticalSamplesExact ==
  \A s \in PongSamples :
    (fed # <<>> /\ \A i \in 1..Len(fed) : fed[i] = [op |-> "processPong", args |-> s])
    => /\ clockSync.currentOffsetMs = SampleRawOffset(s)
       /\ stats[1].stable = (Len(fed) >= MIN_SAMPLES_FOR_STABILITY)

\* C18 (as claimed): processPong with t1 <= t2 <= t3 <= t4 returns an rtt equal
\* to (t4 - t1) - (t3 - t2), which is not negative.
C18_ReturnsSampleRtt ==
  (fed # <<>> /\ LastFed.op = "processPong")
  => /\ stats # None
     /\ stats[1].rtt = DblFromInt(SampleRtt(LastFed.args))
     /\ ~stats[1].rtt.neg

\* the j-th smallest of the integers of a sequence
KthSmallest(w, j) ==
  CHOOSE x \in {w[i] : i \in 1..Len(w)} :
    /\ Cardinality({i \in 1..Len(w) : w[i] < x}) < j
    /\ j <= Cardinality({i \in 1..Len(w) : w[i] <= x})

LastPushed ==
  LET n == Len(pushed)
      k == IF n < RTT_WINDOW_SIZE THEN n ELSE RTT_WINDOW_SIZE
  IN SubSeq(pushed, n - k + 1, n)

\* C19: after n pushes the window holds the last min(n, 10) samples in arrival
\* order; getMedian is null on an empty window, the middle element of the
\* sorted contents for an odd count and the mean of the two middle elements
\* for an even count; it is 55 for 10, 20, ..., 100.
C19_WindowFifoMedian ==
  LET w == LastPushed
      k == Len(w)
  IN /\ Len(rttWindow) = k
     /\ \A i \in 1..k : rttWindow[i] = DblFromInt(w[i])
     /\ k = 0 => getMedian(rttWindow) = None
     /\ (k > 0 /\ k % 2 = 1)
        => getMedian(rttWindow) = Some(DblFromInt(KthSmallest(w, (k + 1) \div 2)))
     /\ (k > 0 /\ k % 2 = 0)
        => getMedian(rttWindow)
           = Some(DblHalf(DblFromInt(KthSmallest(w, k \div 2)
                                     + KthSmallest(w, k \div 2 + 1))))
     /\ pushed = <<10, 20, 30, 40, 50, 60, 70, 80, 90, 100>>
        => getMedian(rttWindow) = Some(DblFromInt(55))

\* an eleventh sample, out of order, pushed the oldest out of a full window
C19_Witness ==
  /\ Len(pushed) = 11
  /\ SubSeq(pushed, 1, 10) = <<10, 20, 30, 40, 50, 60, 70, 80, 90, 100>>
  /\ pushed[11] = 35
  /\ Len(rttWindow) = 10
  /\ rttWindow[1] = DblFromInt(20) /\ rttWindow[10] = DblFromInt(35)
  /\ getMedian(rttWindow) = Some(DblFromInt(55))

\* C20: setOffsetMs(x) on a fresh or reset ClockSync makes the offset exactly
\* x; on any other it makes the offset 0.3 * x + 0.7 * previous, where previous
\* is the filter value, which is the offset the last accepted processPong
\* sample or setOffsetMs call left; an accepted processPong sample goes through
\* the same filter.
C20_SetOffsetThroughFilter ==
  [][/\ fed # <<>> => clockSync.offsetFilter = Some(clockSync.currentOffsetMs)
     /\ FedStep("setOffsetMs")
        => /\ clockSync'.currentOffsetMs
              = (IF fed = <<>> THEN DblFromInt(NewSample[1])
                 ELSE Smoothed(DblFromInt(NewSample[1]), clockSync.currentOffsetMs))
           /\ clockSync'.offsetFilter = Some(clockSync'.currentOffsetMs)
           /\ clockSync'.rttWindow = clockSync.rttWindow
     /\ (FedStep("processPong") /\ clockSync'.offsetFilter # clockSync.offsetFilter)
        => clockSync'.currentOffsetMs
           = (IF fed = <<>> THEN SampleRawOffset(NewSample)
              ELSE Smoothed(SampleRawOffset(NewSample), clockSync.currentOffsetMs))]_vars

\* setOffsetMs(1000) was smoothed against the offset a pong had left
C20_Witness ==
  /\ Len(fed) >= 2
  /\ LastFed.op = "setOffsetMs" /\ LastFed.args = <<1000>>
  /\ fed[Len(fed) - 1].op = "processPong"
  /\ clockSync.currentOffsetMs \notin {DblFromInt(1000), DblFromInt(3)}
  /\ DblFloor(clockSync.currentOffsetMs) \in 300..303


\* the ping timers of a peer in a timer table
PingTimers(ts, p) == {x \in ts : x.callback = "ping" /\ x.peerId = p}

\* what the host sends a follower it has just registered: the first ping and
\* the room parameters, with the live anchor when playback is running
JoinMessages(p) ==
  <<Msg("time_ping", p, [seq |-> 0, t1LeaderMs |-> now]),
    Msg("param_update", p, [bpm |-> Room.bpm, version |-> Room.version])>>
  \o (IF state = "L_RUNNING"
      THEN <<Msg("start_announce", p,
                 [bpm |-> Room.bpm, version |-> Room.version,
                  anchorLeaderMs |-> Room.startAtLeaderMs[1],
                  beatIndexAtAnchor |-> Room.beatIndexAtAnchor[1]])>>
      ELSE <<>>)

\* C13 (as claimed): when a join from a follower the host does not know is
\* processed while a room exists, the host sends it a leader_hello, registers
\* it as a connected peer, sends one time_ping at once and one every 1000 ms
\* from then on (one ping timer of period 1000 ms, whose callback sends one
\* ping), sends a param_update with the current bpm and version, and sends a
\* start_announce with the current bpm, version, anchor and beat index exactly
\* when the host is Running.
C13_JoinBringsPeerUp ==
  [][\A p \in PeerIds :
       /\ (JoinBegin(p) /\ p \notin connectionManager[1].peers /\ roomState # None)
          => sent' = <<Msg("leader_hello", p, [leaderId |-> "host"])>>
       /\ (JoinFinish(p) /\ roomState # None)
          => /\ p \in DOMAIN roomState'[1].peers
             /\ roomState'[1].peers[p].status = "connected"
             /\ sent' = JoinMessages(p)
             /\ PingTimers(timers', p)
                = {[id |-> nextTimerId, callback |-> "ping", peerId |-> p,
                    periodMs |-> 1000, dueMs |-> now + 1000]}
       /\ \A x \in PingTimers(timers, p) :
            (PingIntervalFires(x.id) /\ roomState # None /\ p \in DOMAIN Room.peers)
            => /\ Len(sent') = 1
               /\ sent'[1].type = "time_ping" /\ sent'[1].to = p
               /\ sent'[1].payload.t1LeaderMs = now
               /\ PingTimers(timers', p) = {[x EXCEPT !.dueMs = x.dueMs + 1000]}]_vars

\* C14 (as claimed): when closeRoom completes the host is Idle without a room,
\* its scheduler is stopped, and no ping timer, no stale-sweep timer and no
\* ClockSync of a peer remains, whatever was interleaved with the close.
C14_CloseLeavesNothing ==
  [][CloseRoomFinish
     => /\ state' = "L_IDLE"
        /\ roomState' = None
        /\ ~metronome'.isRunning /\ ~metronome'.schedulerIntervalId
        /\ timers' = {}
        /\ DOMAIN pingIntervals' = {}
        /\ staleSweepIntervalId' = None
        /\ DOMAIN clockSyncs' = {}]_vars

\* C15 (as claimed, the half on stale peers): while a room is open a stale
\* sweep runs every 1000 ms, and at each sweep every tracked peer last heard
\* from more than 6000 ms ago leaves RoomState and has no ping timer left, so
\* that no later time_ping is sent to it.
C15_StaleSweep ==
  [][/\ state \in {"L_ROOM_OPEN", "L_RUNNING"}
        => \E x \in timers : /\ x.callback = "sweep" /\ x.periodMs = 1000
                             /\ x.dueMs <= now + 1000
                             /\ staleSweepIntervalId = Some(x.id)
     /\ \A id \in 1..(nextTimerId - 1) :
          (StaleSweepFires(id) /\ roomState # None)
          => \A p \in DOMAIN Room.peers :
               now - Room.peers[p].lastSeenMs > 6000
               => /\ p \notin DOMAIN roomState'[1].peers
                  /\ PingTimers(timers', p) = {}]_vars


\* C21: reset() after any calls of processPong and setOffsetMs leaves the
\* ClockSync as a freshly constructed one: empty RTT window, no filter value,
\* offset 0, not stable; the first setOffsetMs value or accepted processPong
\* sample after it becomes the offset unblended.
C21_ResetIsFresh ==
  [][/\ (fed # <<>> /\ fed' = <<>>)
        => /\ clockSync' = NewClockSync
           /\ clockSync'.rttWindow = <<>>
           /\ clockSync'.offsetFilter = None
           /\ ~getStats(clockSync').stable
     /\ (fedBeforeReset > 0 /\ fed = <<>> /\ FedStep("setOffsetMs"))
        => clockSync'.currentOffsetMs = DblFromInt(NewSample[1])
     /\ (fedBeforeReset > 0 /\ fed = <<>> /\ FedStep("processPong"))
        => /\ clockSync'.currentOffsetMs = SampleRawOffset(NewSample)
           /\ clockSync'.rttWindow = <<DblFromInt(SampleRtt(NewSample))>>]_vars

\* reset() came after five calls, which had made the instance stable or left a
\* filter value, and the setOffsetMs(1000) that followed was adopted as it is
C21_Witness ==
  /\ fedBeforeReset >= 5
  /\ fed = <<[op |-> "setOffsetMs", args |-> <<1000>>]>>
  /\ clockSync.currentOffsetMs = DblFromInt(1000)
  /\ clockSync.rttWindow = <<>>

\* C22: with the follower's clock a constant ahead of the host's and symmetric
\* one-way delays, the offset the follower holds after an exchange equals that
\* constant; on the host's start_announce (anchor A, beat index 0) the
\* follower's grid is {bpm, A + theta, 0}, and the first beat its scheduler
\* schedules is beat 0
C22_LinkedStart ==
  /\ offsetUpdates > 0 => getOffsetMs(peerClockSync) = DblFromInt(LinkClockLeadMs)
  /\ (announces > 0 /\ roomState # None /\ Room.startAtLeaderMs # None)
        => peerMetronome.beatGrid =
             Some(BeatGrid(Room.bpm, Room.startAtLeaderMs[1] + LinkClockLeadMs, 0))
  /\ peerMetronome.schedulerIntervalId
        => \E e \in peerMetronome.scheduledSources : e.beatIndex = 0

\* C23 (as claimed): a start_announce whose version is not newer than the
\* newest version the follower has applied is discarded: handling it leaves
\* the follower's tempo and beat grid as they were.
C23_StaleVersionDiscarded ==
  [][\A a \in Announcements :
       (/\ appliedVersion # None
        /\ a.version <= appliedVersion[1]
        /\ HandleStartAnnounce(a.bpm, a.version, a.anchorLeaderMs, a.beatIndexAtAnchor))
       => /\ peerMetronome'.beatGrid = peerMetronome.beatGrid
          /\ peerMetronome'.bpm = peerMetronome.bpm]_vars

\* C24 (as claimed): handling a stop_announce while a start is pending or
\* playback runs cancels every pending start, stops the scheduler and, from
\* Running, puts the follower back to Syncing.
C24_StopAnnounceStops ==
  [][((peerState = "C_RUNNING" \/ DOMAIN startTimers # {}) /\ HandleStopAnnounce)
       => /\ DOMAIN startTimers' = {}
          /\ ~peerMetronome'.isRunning
          /\ ~peerMetronome'.schedulerIntervalId
          /\ peerState = "C_RUNNING" => peerState' = "C_SYNCING"]_vars

\* C25 (as claimed): once the follower has left (Idle, no connection manager,
\* no leave or join in progress), every step other than a new joinRoom leaves
\* it Idle with the scheduler stopped and the ClockSync reset, and sends
\* nothing.
C25_LeftStaysIdle ==
  [][(/\ peerState = "C_IDLE" /\ peerConnectionManager = None
      /\ peerPendingCloses = {} /\ peerPendingConnects = 0
      /\ peerState' # "C_DISCOVERING")
       => /\ peerState' = "C_IDLE"
          /\ ~peerMetronome'.isRunning
          /\ ~peerMetronome'.schedulerIntervalId
          /\ peerClockSync' = NewClockSync
          /\ peerSent' = <<>>]_vars

\* C26 (as claimed): the start timer a start_announce arms is due after
\* max(0, anchorLocal - now, 250) ms, so never sooner than 250 ms.
C26_StartupDelayFloor ==
  [][\A a \in Announcements :
       HandleStartAnnounce(a.bpm, a.version, a.anchorLeaderMs, a.beatIndexAtAnchor)
       => startTimers'[announces'].dueMs - peerNow
            = Max(Max(0, peerMetronome'.beatGrid[1].anchorPerformanceMs - peerNow), 250)]_vars

\* C27 (as claimed): a leader_hello that is the first one, or comes from
\* another sender than the known host, resets the ClockSync and puts the
\* follower in Syncing unless it is playing (then it stays as it is); a repeated
\* hello from the known host changes neither the state nor the ClockSync.
C27_HelloResync ==
  [][\A from \in HostIds :
       (PeerReceives /\ HandleLeaderHello(from))
       => IF ~Manager.connected \/ Manager.leaderId \notin {"", from}
          THEN /\ peerClockSync' = NewClockSync
               /\ peerState' = IF peerMetronome.isRunning THEN peerState ELSE "C_SYNCING"
          ELSE /\ peerClockSync' = peerClockSync
               /\ peerState' = peerState]_vars

\* C28 (as claimed): while the follower is joined (joinRoom has returned, no
\* close has begun) exactly one join timer is armed, due within 2000 ms, and
\* its callback sends a join; no join timer is armed for a manager that is
\* closed or closing.
C28_OneJoinTimer ==
  /\ \A x \in joinTimers :
        /\ peerConnectionManager = Some(x.manager)
        /\ \A c \in peerPendingCloses : c.manager # x.manager
  /\ (/\ peerConnectionManager # None
      /\ peerConnectionManager[1] \notin peerPendingSends
      /\ \A c \in peerPendingCloses : c.manager # peerConnectionManager[1])
     => /\ Cardinality(joinTimers) = 1
        /\ \A x \in joinTimers : x.dueMs <= peerNow + JOIN_ANNOUNCE_INTERVAL_MS

\* C29: every click scheduled, under whatever grid, has the accent voice and
\* the downbeat flag exactly when its beat index is a multiple of 4.
C29_DownbeatEveryFourth ==
  \A e \in metronome.scheduledSources \cup metronome.scheduledVisualTimeoutIds :
     e.isDownbeat <=> (e.beatIndex % 4 = 0)

\* a grid anchored at beat 7 with beat 11 scheduled as a regular beat and
\* beat 12 as a downbeat
C29_Witness ==
  /\ metronome.beatGrid # None
  /\ metronome.beatGrid[1].beatIndexAtAnchor = 7
  /\ \E e, f \in metronome.scheduledSources :
        /\ e.beatIndex = 12 /\ e.isDownbeat
        /\ f.beatIndex = 11 /\ ~f.isDownbeat

\* C30 (as claimed): while the metronome is stopped (stop() was the last of
\* start/stop, or start() was never called) no step schedules a click or a
\* visual callback or arms the refill interval, whatever audio resume settles.
C30_StoppedSchedulesNothing ==
  [][(~metronome.isRunning /\ ~metronome'.isRunning)
       => /\ metronome'.scheduledSources \subseteq metronome.scheduledSources
          /\ metronome'.scheduledVisualTimeoutIds \subseteq metronome.scheduledVisualTimeoutIds
          /\ metronome'.schedulerIntervalId => metronome.schedulerIntervalId]_vars

\* C31 (as claimed, in the form a finite run settles): a join that reaches the
\* host while its room is open leaves the follower either registered (a peer of
\* RoomState with an armed ping timer) or with its registration under way (the
\* onPeerConnected callback will run once the hello is sent); a join that does
\* neither changes nothing, so that repeating it never registers the follower.
C31_JoinRegisters ==
  [][\A p \in PeerIds :
       (JoinBegin(p) /\ state \in {"L_ROOM_OPEN", "L_RUNNING"} /\ roomState # None)
       => \/ pendingJoins'[p] > 0
          \/ /\ p \in DOMAIN roomState'[1].peers
             /\ PingTimers(timers', p) # {}]_vars

\* C32 (as claimed): whenever a room exists and no handler of the host is
\* suspended at an await, the followers in RoomState.peers, the followers with
\* an armed ping timer, those with a ping sequence counter and those with a
\* ClockSync are the same set, and no follower has two ping timers (a ClockSync
\* is held per follower id, so none is shared).
C32_PeerSetsAgree ==
  (/\ roomState # None
   /\ pendingCreates = 0 /\ pendingCloses = 0
   /\ \A p \in PeerIds : pendingJoins[p] = 0)
  => /\ {p \in PeerIds : PingTimers(timers, p) # {}} = DOMAIN Room.peers
     /\ DOMAIN pingSeq = DOMAIN Room.peers
     /\ DOMAIN clockSyncs = DOMAIN Room.peers
     /\ \A p \in PeerIds : Cardinality(PingTimers(timers, p)) <= 1

\* C33 (as claimed): handling a time_pong from a follower P that the host
\* tracks (a peer of RoomState with a ClockSync) changes no ClockSync but P's
\* and nothing of RoomState but P's entry, and sends exactly one message: a
\* clock_offset to P that carries the offset and rtt of P's ClockSync after
\* the pong.
C33_PongAnsweredToSender ==
  [][\A p \in PeerIds, delay \in PongDelays, lead \in PeerClockLeads :
       (/\ HandleTimePong(p, delay, lead)
        /\ roomState # None /\ p \in DOMAIN Room.peers /\ p \in DOMAIN clockSyncs)
       => /\ DOMAIN clockSyncs' = DOMAIN clockSyncs
          /\ \A q \in DOMAIN clockSyncs \ {p} : clockSyncs'[q] = clockSyncs[q]
          /\ roomState' = Some([Room EXCEPT !.peers[p] = roomState'[1].peers[p]])
          /\ roomState'[1].peers[p].lastSeenMs = now
          /\ sent' = <<Msg("clock_offset", p,
                           [offsetMs |-> getStats(clockSyncs'[p]).offsetMs,
                            rtt |-> getStats(clockSyncs'[p]).rtt])>>]_vars

\* an event that the installed grid would produce: its time is the grid's time
\* of its beat
OnInstalledGrid(m, ev) ==
  m.beatGrid # None /\ ev.timeMs = calculateBeatTime(m, ev.beatIndex)

\* C34 (as claimed): in every reachable state each pending sound and each
\* pending visual callback of the host's scheduler was computed under the
\* grid that is installed.
C34_PendingOnInstalledGrid ==
  \A ev \in metronome.scheduledSources \cup metronome.scheduledVisualTimeoutIds :
     OnInstalledGrid(metronome, ev)

\* the steps of the host in which setBeatGrid is executed: a start or a resume
\* from an anchor that passes its guards, and a tempo change while Running
ReAnchors ==
  /\ roomState # None /\ connectionManager # None
  /\ \/ /\ state = "L_ROOM_OPEN"
        /\ \/ StartMetronome
           \/ \E d \in ResumeOffsets, i \in ResumeBeatIndices :
                 ResumeMetronomeFromAnchor(now + d, i)
     \/ /\ state = "L_RUNNING" /\ Room.startAtLeaderMs # None
        /\ \E bpm \in BpmValues : ~bpmUnchanged(Room, bpm) /\ SetBPM(bpm)

\* anchorBeatIndex + max(0, floor((t - anchorTime) / msPerBeat)) of a grid
FirstIndex(g, t) ==
  g.beatIndexAtAnchor + Max(0, Floor(t - g.anchorPerformanceMs, MsPerBeat(g.bpm)))

\* the beats from index `first` up to the cursor that lie after time t
BeatsAfter(m, first, t) ==
  {i \in first..(m.nextBeatIndex - 1) : calculateBeatTime(m, i) > t}

\* C35 (as claimed): after a step that executed setBeatGrid(g) at time now the
\* cursor's next beat index is g.anchorBeatIndex + max(0, floor((now -
\* g.anchorTime) / msPerBeat)); no beat below the anchor index is scheduled;
\* and in a step without a re-anchor the cursor index does not decrease.
C35_CursorAtFirstIndex ==
  [][/\ ReAnchors
        => metronome'.nextBeatIndex = FirstIndex(metronome'.beatGrid[1], now)
     /\ \A ev \in metronome'.scheduledSources \ metronome.scheduledSources :
          ev.beatIndex >= metronome'.beatGrid[1].beatIndexAtAnchor
     /\ ~ReAnchors => metronome'.nextBeatIndex >= metronome.nextBeatIndex]_vars

\* C35 (amended): setBeatGrid(g) at time now resets the cursor to the index
\* first = g.anchorBeatIndex + max(0, floor((now - g.anchorTime) / msPerBeat));
\* on a stopped scheduler the cursor stays there, on a running one the same
\* call schedules from there on, so that afterwards the cursor is at or past
\* first and the pending clicks are the beats from first up to the cursor that
\* lie after now.  No beat below the anchor index is scheduled, and in a step
\* without a re-anchor the cursor index does not decrease.
C35_CursorFromFirstIndex ==
  [][/\ ReAnchors
        => LET first == FirstIndex(metronome'.beatGrid[1], now) IN
           /\ metronome'.nextBeatIndex >= first
           /\ ~metronome.isRunning => metronome'.nextBeatIndex = first
           /\ metronome.isRunning
              => {ev.beatIndex : ev \in metronome'.scheduledSources}
                 = BeatsAfter(metronome', first, now)
     /\ \A ev \in metronome'.scheduledSources \ metronome.scheduledSources :
          ev.beatIndex >= metronome'.beatGrid[1].beatIndexAtAnchor
     /\ ~ReAnchors => metronome'.nextBeatIndex >= metronome.nextBeatIndex]_vars

\* a running scheduler right after a tempo change re-anchored it: the anchor
\* beat of the new grid is pending and the cursor is past the reset index
C35_Witness ==
  /\ state = "L_RUNNING" /\ metronome.isRunning /\ metronome.beatGrid # None
  /\ Room.version > 0
  /\ metronome.beatGrid[1].anchorPerformanceMs > now
  /\ metronome.nextBeatIndex > FirstIndex(metronome.beatGrid[1], now)
  /\ \E ev \in metronome.scheduledSources :
        ev.beatIndex = metronome.beatGrid[1].beatIndexAtAnchor

\* C36 (as claimed): every click that a scheduleAhead pass of the host's
\* scheduler adds at time now has a grid time earlier than now + 500 ms.
C36_WithinLookahead ==
  [][\A ev \in metronome'.scheduledSources \ metronome.scheduledSources :
       ev.timeMs < now + LOOKAHEAD_MS]_vars

\* C37 (as claimed): a join from a follower that the host tracks (a peer of
\* RoomState with a ClockSync and a ping timer, no registration under way) is
\* answered with a leader_hello and nothing else: no callback is left to run,
\* so that no ping timer is created, no ClockSync or ping sequence is replaced
\* and no param_update or start_announce is sent again.
C37_RejoinIdempotent ==
  [][\A p \in PeerIds :
       (/\ JoinBegin(p)
        /\ roomState # None /\ p \in DOMAIN Room.peers
        /\ p \in DOMAIN clockSyncs /\ PingTimers(timers, p) # {}
        /\ pendingJoins[p] = 0)
       => /\ sent' = <<Msg("leader_hello", p, [leaderId |-> "host"])>>
          /\ pendingJoins'[p] = 0
          /\ UNCHANGED <<timers, pingIntervals, pingSeq, clockSyncs, roomState>>]_vars

PeerUntouched ==
  /\ peerSent' = <<>>
  /\ UNCHANGED <<peerState, peerConnectionManager, peerManagers, peerClockSync,
                 peerMetronome, startTimers, joinTimers, peerPendingConnects,
                 peerPendingSends, peerPendingCloses, peerPendingResumes,
                 offsetUpdates, announces, appliedVersion>>

\* C39: once the follower has accepted a leader_hello, the handling of a
\* time_ping or control message whose sender is not the known host sends no
\* pong and changes neither the follower's state nor its scheduler or
\* ClockSync; the same goes for a message of a type that is neither time_ping
\* nor a control type (the join, peer_bye and time_pong of other followers).
C39_ForeignMessagesDropped ==
  [][\A from \in HostIds :
       /\ (/\ PeerConnected /\ Manager.leaderId # "" /\ from # Manager.leaderId
           /\ PeerHandleMessage(from))
          => PeerUntouched
       /\ (PeerReceives /\ peerResult' = "dropped" /\ PeerHandleMessage(from))
          => PeerUntouched]_vars

\* a message was just dropped by a follower that is synced to host h1 and has
\* a start pending or its scheduler running
C39_Witness ==
  /\ peerResult = "dropped"
  /\ PeerConnected /\ Manager.leaderId = "h1"
  /\ peerState = "C_SYNCING"
  /\ peerMetronome.beatGrid # None

\* C40 (as claimed): a createRoom invoked while an earlier createRoom is still
\* awaiting the channel connection is rejected: it throws, replaces no
\* RoomState and starts no second connection.
C40_SecondCreateRejected ==
  [][\A bpm \in BpmValues :
       (pendingCreates > 0 /\ CreateRoomBegin(bpm))
       => /\ result' = "throw"
          /\ UNCHANGED <<roomState, pendingCreates>>]_vars

====
